---- MODULE Spec2Model ----
(***************************************************************************)
(* A model of the printer controller: the Supervisor (Manager::start), the *)
(* Bridge (start, inbox task, serial reader task, connect watchdog), the   *)
(* response parser and the print job, with the HTTP front-end and the      *)
(* firmware as the environment.                                            *)
(*                                                                         *)
(* Text is a sequence of one-character strings, so that prefix tests,      *)
(* regular-expression matches, number formatting and the checksum are      *)
(* computed character by character as the code computes them.              *)
(***************************************************************************)
EXTENDS Integers, Sequences, FiniteSets, TLC

(***************************************************************************)
(* Bounds of the model (not program constants).                            *)
(***************************************************************************)
\* Serial lines the firmware delivers in a behaviour that connects.
MaxLines == 3
\* Front-end requests (terminal, print, disconnect) in such a behaviour.
MaxApi == 2
\* ConnectionCreate requests (boot included) in a behaviour that reconnects.
MaxCreates == 3
\* Serial I/O failures (write or read errors) in one behaviour.
MaxIoErrors == 1
\* Serial lines the firmware delivers in a behaviour that prints.
MaxPrintLines == 3
\* The longest batch of lines that waits for its ok when the reader is
\* examined one line at a time.
MaxBatch == 2
\* The acknowledged line of a print that is underway.
Cursor == 5
\* The longest text of a print line drawn for the wire form.
MaxText == 3

(***************************************************************************)
(* Characters and text.                                                    *)
(***************************************************************************)
\* The printable ASCII characters in code order, starting at byte 32 (byte 96,
\* the grave accent, is spelled out: it occurs in no text of the model).
Ascii ==
    << " ", "!", "\"", "#", "$", "%", "&", "'", "(", ")", "*", "+", ",", "-",
       ".", "/", "0", "1", "2", "3", "4", "5", "6", "7", "8", "9", ":", ";",
       "<", "=", ">", "?", "@", "A", "B", "C", "D", "E", "F", "G", "H", "I",
       "J", "K", "L", "M", "N", "O", "P", "Q", "R", "S", "T", "U", "V", "W",
       "X", "Y", "Z", "[", "\\", "]", "^", "_", "grave", "a", "b", "c", "d", "e",
       "f", "g", "h", "i", "j", "k", "l", "m", "n", "o", "p", "q", "r", "s",
       "t", "u", "v", "w", "x", "y", "z", "{", "|", "}", "~" >>

\* The byte of a character (String::bytes); "\n" is byte 10.
Ord(c) ==
    IF c = "\n" THEN 10
    ELSE 31 + (CHOOSE i \in 1..Len(Ascii) : Ascii[i] = c)

Chr(n) == Ascii[n - 31]

IsDigit(c) == c \in {"0", "1", "2", "3", "4", "5", "6", "7", "8", "9"}

\* char::to_lowercase on ASCII.
LowerChar(c) ==
    IF c # "\n" /\ Ord(c) >= 65 /\ Ord(c) <= 90 THEN Chr(Ord(c) + 32) ELSE c

\* str::to_lowercase
ToLower(s) == [i \in 1..Len(s) |-> LowerChar(s[i])]

\* str::starts_with
StartsWith(s, p) == Len(s) >= Len(p) /\ SubSeq(s, 1, Len(p)) = p

\* str::ends_with
EndsWith(s, p) == Len(s) >= Len(p) /\ SubSeq(s, Len(s) - Len(p) + 1, Len(s)) = p

\* p occurs in s starting at position i.
OccursAt(s, p, i) == i >= 1 /\ i + Len(p) - 1 <= Len(s) /\ SubSeq(s, i, i + Len(p) - 1) = p

\* str::contains
Contains(s, p) == \E i \in 1..(Len(s) + 1) : OccursAt(s, p, i)

\* str::replace(" ", "")
RECURSIVE StripSpaces(_)
StripSpaces(s) ==
    IF s = <<>> THEN <<>>
    ELSE IF Head(s) = " " THEN StripSpaces(Tail(s))
    ELSE <<Head(s)>> \o StripSpaces(Tail(s))

\* format!("{}", n) for an unsigned integer.
RECURSIVE Dec(_)
Dec(n) == IF n < 10 THEN <<Chr(48 + n)>> ELSE Dec(n \div 10) \o <<Chr(48 + (n % 10))>>

\* str::parse::<usize> of a run of decimal digits.
RECURSIVE ParseNat(_)
ParseNat(ds) ==
    IF ds = <<>> THEN 0
    ELSE 10 * ParseNat(SubSeq(ds, 1, Len(ds) - 1)) + (Ord(ds[Len(ds)]) - 48)

\* The end (exclusive) of the longest run of characters satisfying the class
\* that starts at position i of s.
RECURSIVE DigitRunEnd(_, _)
DigitRunEnd(s, i) == IF i <= Len(s) /\ IsDigit(s[i]) THEN DigitRunEnd(s, i + 1) ELSE i

IsTempChar(c) == IsDigit(c) \/ c = "."

RECURSIVE TempRunEnd(_, _)
TempRunEnd(s, i) == IF i <= Len(s) /\ IsTempChar(s[i]) THEN TempRunEnd(s, i + 1) ELSE i

\* The sum of two bytes, wrapped to a byte.
Add8(a, b) == (a + b) % 256

\* One bit-wise exclusive or of two bytes (u8 ^ u8).
RECURSIVE Xor8(_, _)
Xor8(a, b) ==
    IF a = 0 THEN b
    ELSE IF b = 0 THEN a
    ELSE 2 * Xor8(a \div 2, b \div 2) + (((a % 2) + (b % 2)) % 2)

(***************************************************************************)
(* Text literals of the program.                                           *)
(***************************************************************************)
S_ok == <<"o", "k">>
S_error == <<"e", "r", "r", "o", "r">>
S_NL == <<"\n">>
S_FIRMWARE_NAME_Marlin ==
    <<"F", "I", "R", "M", "W", "A", "R", "E", "_", "N", "A", "M", "E", ":",
      "M", "a", "r", "l", "i", "n">>
S_Cap_AUTOREPORT_TEMP_1 ==
    <<"C", "a", "p", ":", "A", "U", "T", "O", "R", "E", "P", "O", "R", "T",
      "_", "T", "E", "M", "P", ":", "1">>
S_Cap_EEPROM_1 == <<"C", "a", "p", ":", "E", "E", "P", "R", "O", "M", ":", "1">>
S_M115 == <<"M", "1", "1", "5", "\n">>
S_M155_S2 == <<"M", "1", "5", "5", " ", "S", "2">>
S_M501 == <<"M", "5", "0", "1">>
S_G90 == <<"G", "9", "0">>
S_M110_N0 == <<"M", "1", "1", "0", " ", "N", "0">>
S_ok_N == <<"o", "k", " ", "N">>
S_Resend == <<"R", "e", "s", "e", "n", "d", ":", " ">>
S_LineNumberError ==
    <<"E", "r", "r", "o", "r", ":", "L", "i", "n", "e", " ", "N", "u", "m",
      "b", "e", "r", " ", "i", "s", " ", "n", "o", "t", " ", "L", "a", "s",
      "t", " ", "L", "i", "n", "e", " ", "N", "u", "m", "b", "e", "r", "+",
      "1", ",">>
MsgTimedOut == <<"T", "i", "m", "e", "d", " ", "o", "u", "t">>
MsgAlreadyConnected ==
    <<"T", "r", "i", "e", "d", " ", "t", "o", " ", "c", "r", "e", "a", "t",
      "e", " ", "a", " ", "n", "e", "w", " ", "c", "o", "n", "n", "e", "c",
      "t", "i", "o", "n", " ", "w", "h", "i", "l", "e", " ", "a", "l", "r",
      "e", "a", "d", "y", " ", "c", "o", "n", "n", "e", "c", "t", "e", "d",
      ".", " ", "A", "b", "o", "r", "t", "e", "d", " ", "a", "l", "l", " ",
      "c", "o", "n", "n", "e", "c", "t", "i", "o", "n", "s">>
MsgUnknownError ==
    <<"B", "r", "i", "d", "g", "e", " ", "e", "n", "c", "o", "u", "n", "t",
      "e", "r", "e", "d", " ", "u", "n", "k", "n", "o", "w", "n", " ", "e",
      "r", "r", "o", "r", ".", "\n", " ", "S", "e", "e", " ", "t", "e", "r",
      "m", "i", "n", "a", "l", " ", "f", "o", "r", " ", "m", "o", "r", "e",
      " ", "i", "n", "f", "o">>
MsgResendRatio ==
    <<"R", "e", "s", "e", "n", "d", " ", "r", "a", "t", "i", "o", " ", "w",
      "e", "n", "t", " ", "a", "b", "o", "v", "e", " ", "1", "0", "%", ".",
      "\n", " ", "C", "o", "n", "s", "i", "d", "e", "r", " ", "c", "h", "e",
      "c", "k", "i", "n", "g", " ", "y", "o", "u", "r", " ", "c", "o", "n",
      "n", "e", "c", "t", "i", "o", "n">>
MsgCannotResend ==
    <<"C", "a", "n", "n", "o", "t", " ", "r", "e", "s", "e", "n", "d", " ",
      "l", "i", "n", "e">>
\* The text of an I/O error (std::io::Error::to_string, serialport::Error::description).
MsgIo == <<"I", "O">>
MsgNoDevice == <<"N", "o", " ", "d", "e", "v", "i", "c", "e">>

(***************************************************************************)
(* Response parser (parser.rs).                                            *)
(***************************************************************************)
\* "No value" of an Option<usize>.
None == -1

\* TOOLTEMPREGEX, ((T\d?):([\d\.]+) ?/([\d\.]+))+ , matches s at position i.
TempMatchAt(s, i) ==
    /\ i <= Len(s)
    /\ s[i] = "T"
    /\ \E j \in {i + 1, i + 2} :
          /\ (j = i + 2) => (i + 1 <= Len(s) /\ IsDigit(s[i + 1]))
          /\ j <= Len(s)
          /\ s[j] = ":"
          /\ LET k == TempRunEnd(s, j + 1)
                 m == IF k <= Len(s) /\ s[k] = " " THEN k + 1 ELSE k
             IN  /\ k > j + 1
                 /\ m <= Len(s)
                 /\ s[m] = "/"
                 /\ TempRunEnd(s, m + 1) > m + 1

\* TOOLTEMPREGEX.is_match(s)
IsTemperature(s) == \E i \in 1..Len(s) : TempMatchAt(s, i)

\* The positions of one unit (T\d?):([\d\.]+) ?/([\d\.]+) matched at i: the
\* colon, the end of the current reading, the slash, and the end of the unit
\* (ends are exclusive).
TempUnit(s, i) ==
    LET colon == IF s[i + 1] = ":" THEN i + 1 ELSE i + 2
        k == TempRunEnd(s, colon + 1)
        slash == IF s[k] = " " THEN k + 1 ELSE k
    IN  [colon |-> colon, k |-> k, slash |-> slash,
         end |-> TempRunEnd(s, slash + 1)]

\* The start of the last unit of the match of TOOLTEMPREGEX that starts at i:
\* the group is repeated while the next unit follows at once, and the
\* captures are those of the last repetition.
RECURSIVE LastUnit(_, _)
LastUnit(s, i) ==
    IF TempMatchAt(s, TempUnit(s, i).end) THEN LastUnit(s, TempUnit(s, i).end)
    ELSE i

\* The first position from i on where TOOLTEMPREGEX matches, or 0.
FirstTempMatch(s, i) ==
    LET hits == {h \in i..Len(s) : TempMatchAt(s, h)}
    IN  IF hits = {} THEN 0 ELSE CHOOSE h \in hits : \A g \in hits : h <= g

\* str::parse::<f64>().unwrap_or(0.0), in hundredths: a text of digits with
\* at most one point and at least one digit is its value, any other text 0.0
\* (the readings drawn have at most two decimals).
parse_f64(x) ==
    LET points == {i \in 1..Len(x) : x[i] = "."}
        p == IF points = {} THEN Len(x) + 1 ELSE CHOOSE i \in points : TRUE
        frac == SubSeq(x, p + 1, Len(x))
        frac2 == IF Len(frac) = 0 THEN <<"0", "0">>
                 ELSE IF Len(frac) = 1 THEN frac \o <<"0">>
                 ELSE SubSeq(frac, 1, 2)
    IN  IF \/ Cardinality(points) > 1
           \/ Len(x) - Cardinality(points) = 0
           \/ \E i \in 1..Len(x) : ~IsTempChar(x[i])
        THEN 0
        ELSE 100 * ParseNat(SubSeq(x, 1, p - 1)) + ParseNat(frac2)

\* "No reading" of an Option<TempInfo>.
NoTemp == [some |-> FALSE]

\* The tool readings of TOOLTEMPREGEX.captures_iter(s) from position i on.
RECURSIVE ToolReadings(_, _)
ToolReadings(s, i) ==
    LET h == FirstTempMatch(s, i)
        u == TempUnit(s, LastUnit(s, h))
    IN  IF h = 0 THEN <<>>
        ELSE <<[name |-> SubSeq(s, LastUnit(s, h), u.colon - 1),
                current |-> parse_f64(SubSeq(s, u.colon + 1, u.k - 1)),
                target |-> parse_f64(SubSeq(s, u.slash + 1, u.end - 1))]>>
             \o ToolReadings(s, u.end)

\* BEDTEMPREGEX, B:([\d\.]+) ?/([\d\.]+) , matches s at position i.
BedMatchAt(s, i) ==
    /\ i + 1 <= Len(s)
    /\ s[i] = "B"
    /\ s[i + 1] = ":"
    /\ LET k == TempRunEnd(s, i + 2)
           m == IF k <= Len(s) /\ s[k] = " " THEN k + 1 ELSE k
       IN  /\ k > i + 2
           /\ m <= Len(s)
           /\ s[m] = "/"
           /\ TempRunEnd(s, m + 1) > m + 1

\* The bed reading of BEDTEMPREGEX.captures(s).
BedReading(s) ==
    LET hits == {h \in 1..Len(s) : BedMatchAt(s, h)}
        h == CHOOSE g \in hits : \A f \in hits : g <= f
        k == TempRunEnd(s, h + 2)
        m == IF s[k] = " " THEN k + 1 ELSE k
    IN  IF hits = {} THEN NoTemp
        ELSE [some |-> TRUE,
              current |-> parse_f64(SubSeq(s, h + 2, k - 1)),
              target |-> parse_f64(SubSeq(s, m + 1, TempRunEnd(s, m + 1) - 1))]

\* The chamber reading of CHAMBERREMPREGEX.captures(s).  The pattern is the
\* one of TOOLTEMPREGEX, and the readings are parsed from its groups 1 and 2:
\* the text of the whole unit and the name of the tool.
ChamberReading(s) ==
    LET h == FirstTempMatch(s, 1)
        u == TempUnit(s, LastUnit(s, h))
    IN  IF h = 0 THEN NoTemp
        ELSE [some |-> TRUE,
              current |-> parse_f64(SubSeq(s, LastUnit(s, h), u.end - 1)),
              target |-> parse_f64(SubSeq(s, LastUnit(s, h), u.colon - 1))]

\* Parser::handle_temperature_message: the content of the TempUpdate.
handle_temperature_message(input) ==
    [tools |-> ToolReadings(input, 1), bed |-> BedReading(input),
     chamber |-> ChamberReading(input)]

\* LINENR, ok N(\d+) : the captured number of the first match, or None.
OkLineNumber(s) ==
    LET hits == {i \in 1..Len(s) :
                    OccursAt(s, S_ok_N, i) /\ DigitRunEnd(s, i + 4) > i + 4}
    IN  IF hits = {} THEN None
        ELSE LET i == CHOOSE h \in hits : \A g \in hits : h <= g
             IN  ParseNat(SubSeq(s, i + 4, DigitRunEnd(s, i + 4) - 1))

\* The start of the digits of RESEND, Resend: N?:?(\d+) , matched at i, or 0.
ResendDigitsAt(s, i) ==
    IF ~OccursAt(s, S_Resend, i) THEN 0
    ELSE LET a == i + Len(S_Resend)
             b == IF a <= Len(s) /\ s[a] = "N" THEN a + 1 ELSE a
             c == IF b <= Len(s) /\ s[b] = ":" THEN b + 1 ELSE b
         IN  IF DigitRunEnd(s, c) > c THEN c
             ELSE IF DigitRunEnd(s, b) > b THEN b
             ELSE IF DigitRunEnd(s, a) > a THEN a
             ELSE 0

\* RESEND: the captured number of the first match, or None.
ResendLineNumber(s) ==
    LET hits == {i \in 1..Len(s) : ResendDigitsAt(s, i) > 0}
    IN  IF hits = {} THEN None
        ELSE LET i == CHOOSE h \in hits : \A g \in hits : h <= g
                 d == ResendDigitsAt(s, i)
             IN  ParseNat(SubSeq(s, d, DigitRunEnd(s, d) - 1))

\* A line that begins with "error" in any case, other than the suppressed
\* line-number mismatch.
IsUnsuppressedError(s) ==
    StartsWith(ToLower(s), S_error) /\ ~StartsWith(s, S_LineNumberError)

\* BridgeAction values.
Continue(n) == [kind |-> "Continue", line |-> n]
Resend(n) == [kind |-> "Resend", line |-> n]
ErrorAction == [kind |-> "Error", line |-> None]

\* A parser that ranks an error line above a Resend line.
parse_responsesErrorFirst(batch) ==
    LET resends == {i \in 1..Len(batch) : ResendLineNumber(batch[i]) # None}
        errors == {i \in 1..Len(batch) : IsUnsuppressedError(batch[i])}
    IN  IF errors # {} THEN ErrorAction
        ELSE IF resends # {}
        THEN Resend(ResendLineNumber(batch[CHOOSE i \in resends : \A j \in resends : i <= j]))
        ELSE Continue(None)

\* Parser::parse_responses: Resend first, then a non-suppressed error, else
\* Continue with the acknowledged number of the last ok of the batch.
parse_responses(batch) ==
    LET resends == {i \in 1..Len(batch) : ResendLineNumber(batch[i]) # None}
        errors == {i \in 1..Len(batch) : IsUnsuppressedError(batch[i])}
        oks == {i \in 1..Len(batch) : StartsWith(batch[i], S_ok)}
    IN  IF resends # {}
        THEN Resend(ResendLineNumber(batch[CHOOSE i \in resends : \A j \in resends : i <= j]))
        ELSE IF errors # {} THEN ErrorAction
        ELSE IF oks = {} THEN Continue(None)
        ELSE Continue(OkLineNumber(batch[CHOOSE i \in oks : \A j \in oks : i >= j]))

\* The XOR of the bytes of a text, from cs.
RECURSIVE XorBytes(_, _)
XorBytes(s, cs) == IF s = <<>> THEN cs ELSE XorBytes(Tail(s), Xor8(cs, Ord(Head(s))))

\* A wire form that keeps the spaces of the line.
add_checksumKeepSpaces(linenr, line) ==
    LET l == <<"N">> \o Dec(linenr) \o line
        cs == XorBytes(l, 0) % 256
    IN  l \o <<"*">> \o Dec(cs)

\* Parser::add_checksum
add_checksum(linenr, line) ==
    LET l == <<"N">> \o Dec(linenr) \o StripSpaces(line)
        cs == XorBytes(l, 0) % 256
    IN  l \o <<"*">> \o Dec(cs)

(***************************************************************************)
(* Print job (models.rs, PrintInfo).                                       *)
(***************************************************************************)
\* "No job" of an Option<PrintInfo>, and "no line" of an Option<Line>.
NoJob == [filename |-> <<>>, filesize |-> 0, data_sent |-> 0, gcode |-> <<>>,
          line_number |-> 0, resend_amount |-> 0, some |-> FALSE]
NoLine == [content |-> <<>>, line_number |-> None]

\* PrintInfo::new
PrintInfoNew(filename, filesize, gcode) ==
    [filename |-> filename, filesize |-> filesize, data_sent |-> 0,
     gcode |-> gcode, line_number |-> 0, resend_amount |-> 0, some |-> TRUE]

\* PrintInfo::get_line_by_index (Vec::get, indices from 0)
get_line_by_index(info, index) ==
    IF index >= 0 /\ index < Len(info.gcode)
    THEN [content |-> info.gcode[index + 1], line_number |-> index]
    ELSE NoLine

\* PrintInfo::set_line_number panics for such a line number.
SetLineNumberPanics(info, n) == n > Len(info.gcode) + 1

\* PrintInfo::set_line_number, when it does not panic.
set_line_number(info, n) == [info EXCEPT !.line_number = n]

\* PrintInfo::report_resend
report_resend(info) == [info EXCEPT !.resend_amount = @ + 1]

\* PrintInfo::get_resend_ratio, as the exact fraction num/den.
get_resend_ratio(info) == [num |-> info.resend_amount * 100, den |-> Len(info.gcode)]

\* The comparison  get_resend_ratio() > 0.1  of handle_ok_response.
ResendRatioTooHigh(info) ==
    LET r == get_resend_ratio(info) IN r.num * 10 > r.den

\* PrintInfo::add_bytes_sent
add_bytes_sent(info, bytes) ==
    IF info.filesize = 0 THEN info ELSE [info EXCEPT !.data_sent = @ + bytes]

\* PrintInfo::progress formatted with {:.1}, in tenths of a percent.
ProgressTenths(info) ==
    IF info.filesize = 0 THEN 0
    ELSE (2 * 1000 * info.data_sent + info.filesize) \div (2 * info.filesize)

\* The test  difference > 0.1  on two progress values of one decimal place.
ProgressChanged(prev, next) == next - prev > 1

(***************************************************************************)
(* The inputs of the model: firmware lines, terminal commands, print jobs. *)
(***************************************************************************)
L_firmware == <<"F", "I", "R", "M", "W", "A", "R", "E", "_", "N", "A", "M", "E", ":", "M", "a", "r", "l", "i", "n", " ", "2", ".", "0">>
L_cap_temp == <<"C", "a", "p", ":", "A", "U", "T", "O", "R", "E", "P", "O", "R", "T", "_", "T", "E", "M", "P", ":", "1">>
L_temp == <<"T", ":", "2", "0", ".", "5", " ", "/", "0", ".", "0">>
L_ok_temp == <<"o", "k", " ", "T", ":", "2", "0", ".", "5", " ", "/", "0", ".", "0">>
L_ok_temp_bed == <<"o", "k", " ", "T", ":", "2", "0", "3", ".", "1", "2", " ", "/", "2", "1", "0", ".", "0", "0", " ", "B", ":", "5", "9", ".", "8", " ", "/", "6", "0", ".", "0">>
L_error == <<"E", "r", "r", "o", "r", ":", "P", "r", "i", "n", "t", "e", "r", " ", "h", "a", "l", "t", "e", "d">>
L_echo == <<"e", "c", "h", "o", ":", "c", "o", "l", "d", " ", "e", "x", "t", "r", "u", "s", "i", "o", "n">>
L_ok_N8 == <<"o", "k", " ", "N", "8">>
L_ok_N19 == <<"o", "k", " ", "N", "1", "9">>
L_resend_N5 == <<"R", "e", "s", "e", "n", "d", ":", " ", "N", "5">>
L_start == <<"s", "t", "a", "r", "t">>
L_cap_eeprom == <<"C", "a", "p", ":", "E", "E", "P", "R", "O", "M", ":", "1">>
L_line_mismatch ==
    <<"E", "r", "r", "o", "r", ":", "L", "i", "n", "e", " ", "N", "u", "m", "b", "e", "r", " ", "i", "s", " ", "n", "o", "t", " ", "L", "a", "s", "t", " ", "L", "i", "n", "e", " ", "N", "u", "m", "b", "e", "r", "+", "1", ",", " ", "L", "a", "s", "t", " ", "L", "i", "n", "e", ":", " ", "4">>
CmdG28 == <<"G", "2", "8">>
CmdM105 == <<"M", "1", "0", "5", "\n">>
JobFile == <<"a", ".", "g", "c", "o", "d", "e">>
GcodeMove == <<"G", "1", " ", "X">>

\* Lines a firmware may send while the Bridge connects.
ConnectLines == {L_firmware, L_cap_temp, S_ok, L_temp, L_error}

\* Lines a firmware may send in a behaviour that prints.
PrintLines == {S_ok, L_ok_N8, L_ok_N19, L_resend_N5, L_temp}

\* The capability probe: a boot banner, the answer to M115 (the firmware line
\* and two capabilities, closed by ok), and three more ok.
ProbeScript ==
    <<L_start, L_firmware, L_cap_temp, L_cap_eeprom, S_ok, S_ok, S_ok, S_ok>>

\* A firmware that is not Marlin: it answers M115 with its banner and ok,
\* twice.
ForeignScript == <<L_start, S_ok, L_start, S_ok>>

\* The same answers without the banner, the capabilities in either order.
ProbeAnswers ==
    { <<L_firmware, L_cap_temp, L_cap_eeprom, S_ok, S_ok, S_ok, S_ok>>,
      <<L_firmware, L_cap_eeprom, L_cap_temp, S_ok, S_ok, S_ok, S_ok>> }

\* Values of the settings table.
S_1 == <<"1">>
S_0 == <<"0">>
S_true == <<"t", "r", "u", "e">>
S_115200 == <<"1", "1", "5", "2", "0", "0">>
S_dev_ttyUSB0 == <<"/", "d", "e", "v", "/", "t", "t", "y", "U", "S", "B", "0">>

\* Terminal commands of the front-end (with and without the final newline).
Commands == {CmdG28, CmdM105}

\* Lines of the print job, index 0 being the line-number reset (the loader
\* prepends it); the file size is the sum of the line lengths.
JobLines == 20
JobGcode == [i \in 1..JobLines |-> IF i = 1 THEN S_M110_N0 ELSE GcodeMove \o Dec(i - 1)]

\* A job long enough for one resend to stay within the resend-ratio test.
BigJobLines == 1001
BigJobGcode == [i \in 1..BigJobLines |-> IF i = 1 THEN S_M110_N0 ELSE GcodeMove \o Dec(i - 1)]

RECURSIVE SumLen(_)
SumLen(ls) == IF ls = <<>> THEN 0 ELSE Len(Head(ls)) + SumLen(Tail(ls))

Jobs == {PrintInfoNew(JobFile, SumLen(Tail(JobGcode)), JobGcode)}

\* The firmware's lines  ok N<n>  and  Resend: N<n> .
OkLine(n) == S_ok_N \o Dec(n)
ResendLine(n) == S_Resend \o <<"N">> \o Dec(n)

\* serialport::ErrorKind of a failed open.
OpenErrors == {"NoDevice", "InvalidInput", "Unknown", "Io"}

(***************************************************************************)
(* Events (models.rs: EventType, BridgeEvents, WebsocketEvents) and state  *)
(* descriptions (StateDescription).                                        *)
(***************************************************************************)
DescNone == [kind |-> "None"]
DescCapability(caps) == [kind |-> "Capability", capabilities |-> caps]
DescError(msg) == [kind |-> "Error", message |-> msg]
DescPrint(info) ==
    [kind |-> "Print", filename |-> info.filename,
     data_sent |-> info.data_sent, filesize |-> info.filesize]

StateWrapper(s, d) == [state |-> s, description |-> d]

EvConnectionCreate == [t |-> "ConnectionCreate"]
EvConnectionCreateError(e) == [t |-> "ConnectionCreateError", error |-> e]
EvTerminalSend(m, id) == [t |-> "TerminalSend", message |-> m, id |-> id]
EvPrintEnd == [t |-> "PrintEnd"]
EvPrintStart(info) == [t |-> "PrintStart", info |-> info]
EvStateUpdate(s, d) == [t |-> "StateUpdate", state |-> s, description |-> d]
EvKill == [t |-> "KILL"]
WsStateUpdate(s, d) == [t |-> "WsStateUpdate", state |-> s, description |-> d]
WsTerminalRead(m) == [t |-> "WsTerminalRead", message |-> m]
WsTerminalSend(m, id) == [t |-> "WsTerminalSend", message |-> m, id |-> id]
WsTempUpdate(m) ==
    [t |-> "WsTempUpdate", tools |-> handle_temperature_message(m).tools,
     bed |-> handle_temperature_message(m).bed,
     chamber |-> handle_temperature_message(m).chamber]

(***************************************************************************)
(* State.                                                                  *)
(***************************************************************************)
VARIABLES
    dist,           \* the distributor channel (dist_sender / dist_receiver)
    inbox,          \* the Bridge channel (bridge_sender / bridge_receiver)
    bridge_thread,  \* Manager.bridge_thread: 0 for None, else the Bridge spawned
    state,          \* the state snapshot shared by the Manager and the Bridge
    panicked,       \* the Manager's task has panicked (the process is gone)
    frames,         \* state_update frames written to the WebSocket clients
    br,             \* the Bridges created so far, in creation order
    serial_out,     \* texts written to the serial link, with the writing Bridge
    in_flight,      \* per Bridge: commands written and not yet answered by ok
    next_id,        \* the next fresh Uuid
    fw_lines,       \* the lines the attached firmware may send
    budget          \* what the environment may still do in this behaviour

vars == <<dist, inbox, bridge_thread, state, panicked, frames, br,
          serial_out, in_flight, next_id, fw_lines, budget>>

Bridges == DOMAIN br

\* Bridge::new, before start() has run.
NewBridge ==
    [status |-> "spawned", inbox_task |-> FALSE, reader_task |-> FALSE,
     timer |-> "none", canceled |-> FALSE, ready |-> TRUE,
     message_queue |-> <<>>, print_info |-> NoJob, collected |-> <<>>,
     collected_responses |-> <<>>, has_collected_capabilities |-> FALSE,
     commands_left_to_send |-> <<>>]

\* Whether a serial write may fail here: I/O failures are budgeted.
WriteOutcomes == IF budget.io > 0 THEN {TRUE, FALSE} ELSE {TRUE}

SpendIo(ok) == IF ok THEN budget ELSE [budget EXCEPT !.io = @ - 1]

\* The record of one serial write.
Written(b, text) == [bridge |-> b, text |-> text]

(***************************************************************************)
(* The HTTP front-end (api_manager/routes).                                *)
(***************************************************************************)
\* PUT /api/connection
ApiCreateConnection ==
    /\ ~panicked
    /\ budget.creates > 0
    /\ state.state \in {"DISCONNECTED", "ERRORED"}
    /\ dist' = Append(dist, EvConnectionCreate)
    /\ budget' = [budget EXCEPT !.creates = @ - 1]
    /\ UNCHANGED <<inbox, bridge_thread, state, panicked, frames, br,
                   serial_out, in_flight, next_id, fw_lines>>

\* DELETE /api/connection
ApiDisconnect ==
    /\ ~panicked
    /\ budget.api > 0
    /\ state.state \notin {"DISCONNECTED", "ERRORED"}
    /\ dist' = Append(dist, EvStateUpdate("DISCONNECTED", DescNone))
    /\ budget' = [budget EXCEPT !.api = @ - 1]
    /\ UNCHANGED <<inbox, bridge_thread, state, panicked, frames, br,
                   serial_out, in_flight, next_id, fw_lines>>

\* POST /api/terminal
ApiTerminal ==
    /\ ~panicked
    /\ budget.api > 0
    /\ state.state = "CONNECTED"
    /\ \E m \in Commands : dist' = Append(dist, EvTerminalSend(m, next_id))
    /\ next_id' = next_id + 1
    /\ budget' = [budget EXCEPT !.api = @ - 1]
    /\ UNCHANGED <<inbox, bridge_thread, state, panicked, frames, br,
                   serial_out, in_flight, fw_lines>>

\* PUT /api/print
ApiStartPrint ==
    /\ ~panicked
    /\ budget.api > 0
    /\ state.state = "CONNECTED"
    /\ \E info \in Jobs : dist' = Append(dist, EvPrintStart(info))
    /\ budget' = [budget EXCEPT !.api = @ - 1]
    /\ UNCHANGED <<inbox, bridge_thread, state, panicked, frames, br,
                   serial_out, in_flight, next_id, fw_lines>>

\* DELETE /api/print
ApiCancelPrint ==
    /\ ~panicked
    /\ budget.api > 0
    /\ state.state = "PRINTING"
    /\ dist' = Append(dist, EvPrintEnd)
    /\ budget' = [budget EXCEPT !.api = @ - 1]
    /\ UNCHANGED <<inbox, bridge_thread, state, panicked, frames, br,
                   serial_out, in_flight, next_id, fw_lines>>

(***************************************************************************)
(* The Supervisor: one iteration of the loop of Manager::start per event.  *)
(***************************************************************************)
DistHead(t) == ~panicked /\ dist # <<>> /\ Head(dist).t = t

\* JoinHandle::abort on the task that runs Bridge::start: a task that has not
\* run yet never runs; the tasks a started Bridge spawned are not aborted.
AbortHandle(b) ==
    IF br[b].status = "spawned" THEN [br EXCEPT ![b].status = "aborted"] ELSE br

SupConnectionCreate ==
    /\ DistHead("ConnectionCreate")
    /\ IF bridge_thread # 0
       THEN /\ dist' = Append(Tail(dist), EvConnectionCreateError(MsgAlreadyConnected))
            /\ UNCHANGED <<br, bridge_thread, in_flight>>
       ELSE /\ dist' = Tail(dist)
            /\ br' = Append(br, NewBridge)
            /\ in_flight' = Append(in_flight, 0)
            /\ bridge_thread' = Len(br) + 1
    /\ UNCHANGED <<inbox, state, panicked, frames, serial_out, next_id,
                   fw_lines, budget>>

SupConnectionCreateError ==
    /\ DistHead("ConnectionCreateError")
    /\ dist' = Tail(dist) \o
                  <<EvKill, WsStateUpdate("ERRORED", DescError(Head(dist).error))>>
    /\ IF bridge_thread # 0
       THEN /\ br' = AbortHandle(bridge_thread)
            /\ bridge_thread' = 0
            /\ UNCHANGED panicked
       ELSE /\ panicked' = TRUE
            /\ UNCHANGED <<br, bridge_thread>>
    /\ UNCHANGED <<inbox, state, frames, serial_out, in_flight, next_id,
                   fw_lines, budget>>

SupTerminalSend ==
    /\ DistHead("TerminalSend")
    /\ dist' = Tail(dist)
    /\ inbox' = IF bridge_thread = 0 THEN inbox
                ELSE Append(inbox, EvTerminalSend(Head(dist).message, Head(dist).id))
    /\ UNCHANGED <<bridge_thread, state, panicked, frames, br, serial_out,
                   in_flight, next_id, fw_lines, budget>>

SupPrintEnd ==
    /\ DistHead("PrintEnd")
    /\ dist' = Tail(dist)
    /\ inbox' = Append(inbox, EvPrintEnd)
    /\ UNCHANGED <<bridge_thread, state, panicked, frames, br, serial_out,
                   in_flight, next_id, fw_lines, budget>>

SupPrintStart ==
    /\ DistHead("PrintStart")
    /\ dist' = Tail(dist)
    /\ inbox' = IF bridge_thread = 0 THEN inbox
                ELSE Append(inbox, EvPrintStart(Head(dist).info))
    /\ UNCHANGED <<bridge_thread, state, panicked, frames, br, serial_out,
                   in_flight, next_id, fw_lines, budget>>

\* What the StateUpdate arm does once the snapshot is stored and a Bridge is
\* in the slot: the event sent to the Bridge, and the slot afterwards.
TearsDown(s) == s \in {"DISCONNECTED", "ERRORED"}

SupStateUpdate ==
    /\ DistHead("StateUpdate")
    /\ LET ev == Head(dist)
       IN  /\ state' = StateWrapper(ev.state, ev.description)
           /\ IF bridge_thread = 0
              THEN /\ dist' = Tail(dist)
                   /\ UNCHANGED <<inbox, bridge_thread>>
              ELSE /\ inbox' = Append(inbox, IF TearsDown(ev.state) THEN EvKill
                                             ELSE EvStateUpdate(ev.state, ev.description))
                   /\ bridge_thread' = IF TearsDown(ev.state) THEN 0 ELSE bridge_thread
                   /\ dist' = Append(Tail(dist), WsStateUpdate(ev.state, ev.description))
    /\ UNCHANGED <<panicked, frames, br, serial_out, in_flight, next_id,
                   fw_lines, budget>>

\* The frame of a state_update: the state and, for Errored, the errorDescription.
StateFrame(ev) ==
    [state |-> ev.state,
     errorDescription |-> IF ev.state = "ERRORED" /\ ev.description.kind = "Error"
                          THEN ev.description.message ELSE <<>>]

SupWsStateUpdate ==
    /\ DistHead("WsStateUpdate")
    /\ dist' = Tail(dist)
    /\ frames' = Append(frames, StateFrame(Head(dist)))
    /\ UNCHANGED <<inbox, bridge_thread, state, panicked, br, serial_out,
                   in_flight, next_id, fw_lines, budget>>

\* TempUpdate, TerminalRead and TerminalSend frames go to the clients; KILL is ignored.
SupForward ==
    /\ ~panicked
    /\ dist # <<>>
    /\ Head(dist).t \in {"WsTempUpdate", "WsTerminalRead", "WsTerminalSend", "KILL"}
    /\ dist' = Tail(dist)
    /\ UNCHANGED <<inbox, bridge_thread, state, panicked, frames, br,
                   serial_out, in_flight, next_id, fw_lines, budget>>

(***************************************************************************)
(* Bridge::start: the task the Supervisor spawned runs to its end.         *)
(***************************************************************************)
\* serialport::Error::description of a failed open, by kind.
OpenErrorDescription(kind) ==
    CASE kind = "NoDevice" -> MsgNoDevice
      [] kind = "Io" -> MsgIo
      [] OTHER -> <<"U", "n", "k", "n", "o", "w", "n">>

\* The arms of the match on the kind of a failed open: the events sent.
OpenErrorEvents(kind) ==
    IF kind = "InvalidInput" THEN <<>>
    ELSE <<EvConnectionCreateError(OpenErrorDescription(kind))>>

\* The arm for InvalidInput is todo!(): the task panics there.
OpenErrorStatus(kind) == IF kind = "InvalidInput" THEN "panicked" ELSE "open_failed"

BridgeStart(b) ==
    /\ ~panicked
    /\ br[b].status = "spawned"
    /\ state' = StateWrapper("CONNECTING", DescNone)
    /\ \E r \in {"Ok"} \cup OpenErrors, okw \in WriteOutcomes :
          IF r = "Ok"
          THEN /\ br' = [br EXCEPT ![b].status = "running", ![b].timer = "armed",
                                   ![b].inbox_task = TRUE, ![b].reader_task = TRUE]
               /\ dist' = Append(dist, WsStateUpdate("CONNECTING", DescNone))
               /\ serial_out' = IF okw THEN Append(serial_out, Written(b, S_M115))
                                ELSE serial_out
               /\ in_flight' = IF okw THEN [in_flight EXCEPT ![b] = @ + 1] ELSE in_flight
               /\ budget' = SpendIo(okw)
          ELSE /\ okw
               /\ br' = [br EXCEPT ![b].status = OpenErrorStatus(r)]
               /\ dist' = Append(dist, WsStateUpdate("CONNECTING", DescNone))
                             \o OpenErrorEvents(r)
               /\ UNCHANGED <<serial_out, in_flight, budget>>
    /\ UNCHANGED <<inbox, bridge_thread, panicked, frames, next_id, fw_lines>>

\* A watchdog that publishes nothing when its sleep is over.
TimeoutSilent(b) ==
    /\ ~panicked
    /\ br[b].timer = "armed"
    /\ br' = [br EXCEPT ![b].timer = "fired"]
    /\ UNCHANGED <<dist, inbox, bridge_thread, state, panicked, frames, serial_out,
                   in_flight, next_id, fw_lines, budget>>

\* spawn_timeout: the sleep of ten seconds is over.
Timeout(b) ==
    /\ ~panicked
    /\ br[b].timer = "armed"
    /\ br' = [br EXCEPT ![b].timer = "fired"]
    /\ dist' = IF state.state = "CONNECTING"
               THEN Append(dist, EvStateUpdate("ERRORED", DescError(MsgTimedOut)))
               ELSE dist
    /\ UNCHANGED <<inbox, bridge_thread, state, panicked, frames, serial_out,
                   in_flight, next_id, fw_lines, budget>>

(***************************************************************************)
(* spawn_event_listener: one iteration of the inbox task per event.        *)
(***************************************************************************)
InboxHead(b, t) ==
    /\ ~panicked
    /\ br[b].inbox_task
    /\ inbox # <<>>
    /\ Head(inbox).t = t

InboxKill(b) ==
    /\ InboxHead(b, "KILL")
    /\ inbox' = Tail(inbox)
    /\ br' = [br EXCEPT ![b].canceled = TRUE, ![b].inbox_task = FALSE]
    /\ UNCHANGED <<dist, bridge_thread, state, panicked, frames, serial_out,
                   in_flight, next_id, fw_lines, budget>>

\* The text written for a TerminalSend: a newline is appended when missing.
WithNewline(message) == IF EndsWith(message, S_NL) THEN message ELSE message \o S_NL

\* The value the gate gets when a TerminalSend passes it in CONNECTED.
GateAfterSend(ready) == TRUE

InboxTerminalSend(b) ==
    /\ InboxHead(b, "TerminalSend")
    /\ inbox' = Tail(inbox)
    /\ LET id == Head(inbox).id
           message == WithNewline(Head(inbox).message)
       IN  IF state.state = "CONNECTED" /\ ~br[b].ready
           THEN /\ br' = [br EXCEPT ![b].message_queue =
                                       Append(@, [content |-> message, id |-> id])]
                /\ UNCHANGED <<dist, serial_out, in_flight, budget>>
           ELSE \E okw \in WriteOutcomes :
                /\ br' = IF state.state = "CONNECTED"
                         THEN [br EXCEPT ![b].ready = GateAfterSend(@)] ELSE br
                /\ budget' = SpendIo(okw)
                /\ IF okw
                   THEN /\ serial_out' = Append(serial_out, Written(b, message))
                        /\ in_flight' = [in_flight EXCEPT ![b] = @ + 1]
                        /\ dist' = Append(dist, WsTerminalSend(message, id))
                   ELSE /\ dist' = Append(dist, EvStateUpdate("ERRORED", DescError(MsgIo)))
                        /\ UNCHANGED <<serial_out, in_flight>>
    /\ UNCHANGED <<bridge_thread, state, panicked, frames, next_id, fw_lines>>

\* An inbox task that drops the job at an EndPrint and publishes nothing.
InboxPrintEndKeepsPhase(b) ==
    /\ InboxHead(b, "PrintEnd")
    /\ inbox' = Tail(inbox)
    /\ br' = IF state.state # "PRINTING" THEN [br EXCEPT ![b].inbox_task = FALSE]
             ELSE [br EXCEPT ![b].print_info = NoJob]
    /\ UNCHANGED <<dist, bridge_thread, state, panicked, frames, serial_out,
                   in_flight, next_id, fw_lines, budget>>

InboxPrintEnd(b) ==
    /\ InboxHead(b, "PrintEnd")
    /\ inbox' = Tail(inbox)
    /\ IF state.state # "PRINTING"
       THEN /\ br' = [br EXCEPT ![b].inbox_task = FALSE]
            /\ UNCHANGED dist
       ELSE /\ br' = [br EXCEPT ![b].print_info = NoJob]
            /\ dist' = Append(dist, EvStateUpdate("CONNECTED", DescNone))
    /\ UNCHANGED <<bridge_thread, state, panicked, frames, serial_out,
                   in_flight, next_id, fw_lines, budget>>

\* An inbox task that starts the print whatever the phase.
InboxPrintStartAnyPhase(b) ==
    /\ InboxHead(b, "PrintStart")
    /\ inbox' = Tail(inbox)
    /\ br' = [br EXCEPT ![b].print_info = Head(inbox).info]
    /\ dist' = dist \o <<EvStateUpdate("PRINTING", DescPrint(Head(inbox).info)),
                         EvTerminalSend(S_M110_N0, next_id)>>
    /\ next_id' = next_id + 1
    /\ UNCHANGED <<bridge_thread, state, panicked, frames, serial_out,
                   in_flight, fw_lines, budget>>

InboxPrintStart(b) ==
    /\ InboxHead(b, "PrintStart")
    /\ inbox' = Tail(inbox)
    /\ IF state.state # "CONNECTED"
       THEN /\ br' = [br EXCEPT ![b].inbox_task = FALSE]
            /\ UNCHANGED <<dist, next_id>>
       ELSE /\ br' = [br EXCEPT ![b].print_info = Head(inbox).info]
            /\ dist' = dist \o <<EvStateUpdate("PRINTING", DescPrint(Head(inbox).info)),
                                 EvTerminalSend(S_M110_N0, next_id)>>
            /\ next_id' = next_id + 1
    /\ UNCHANGED <<bridge_thread, state, panicked, frames, serial_out,
                   in_flight, fw_lines, budget>>

InboxStateUpdate(b) ==
    /\ InboxHead(b, "StateUpdate")
    /\ inbox' = Tail(inbox)
    /\ br' = IF Head(inbox).state = "CONNECTED" THEN [br EXCEPT ![b].ready = TRUE]
             ELSE br
    /\ UNCHANGED <<dist, bridge_thread, state, panicked, frames, serial_out,
                   in_flight, next_id, fw_lines, budget>>

(***************************************************************************)
(* spawn_bridge_serial_reader.  The reader is modelled a line at a time:   *)
(* c is the text accumulated when the newline arrives.  The result of one  *)
(* line is the reader's record afterwards, the events sent to the          *)
(* distributor and to the Bridge channel, the texts written to the link,   *)
(* whether a write was attempted, and the number of fresh Uuids drawn.     *)
(***************************************************************************)
Effect(r, d, i, w) ==
    [r |-> r, dist |-> d, inbox |-> i, writes |-> w, attempted |-> w # <<>>,
     failed |-> FALSE, ids |-> Len(SelectSeq(d \o i, LAMBDA e : e.t = "TerminalSend"))]

\* A panic of the reader task: nothing more is sent and the task is gone.
ReaderPanics(r) == Effect([r EXCEPT !.reader_task = FALSE], <<>>, <<>>, <<>>)

\* The TerminalSend of a print line.
PrintLineSend(line, id) ==
    EvTerminalSend(add_checksum(line.line_number, line.content), id)

\* A Continue arm that takes every ok without a line number for the answer to
\* M110 N0, whatever the cursor.
ContinuePrintingNoSkip(r, n, id) ==
    LET info == r.print_info
        index == IF n # None THEN n + 1 ELSE 1
        current == IF n # None THEN n ELSE 1
        line == get_line_by_index(info, index)
        i1 == set_line_number(info, current)
        i2 == add_bytes_sent(i1, Len(line.content))
        progress == IF ProgressChanged(ProgressTenths(i1), ProgressTenths(i2))
                    THEN <<WsStateUpdate("PRINTING", DescPrint(i2))>> ELSE <<>>
    IN  IF ~info.some THEN Effect(r, <<>>, <<>>, <<>>)
        ELSE IF SetLineNumberPanics(info, current) THEN ReaderPanics(r)
        ELSE IF line = NoLine
             THEN Effect([r EXCEPT !.print_info = i1], <<EvPrintEnd>>, <<>>, <<>>)
             ELSE Effect([r EXCEPT !.print_info = i2], progress,
                         <<PrintLineSend(line, id)>>, <<>>)

\* handle_ok_response, arm Continue in PRINTING.
ContinuePrinting(r, n, id) ==
    LET info == r.print_info
        index == IF n # None THEN n + 1 ELSE 1
        current == IF n # None THEN n ELSE 1
        line == get_line_by_index(info, index)
        i1 == set_line_number(info, current)
        i2 == add_bytes_sent(i1, Len(line.content))
        progress == IF ProgressChanged(ProgressTenths(i1), ProgressTenths(i2))
                    THEN <<WsStateUpdate("PRINTING", DescPrint(i2))>> ELSE <<>>
    IN  IF ~info.some THEN Effect(r, <<>>, <<>>, <<>>)
        ELSE IF n = None /\ info.line_number # 0 THEN Effect(r, <<>>, <<>>, <<>>)
        ELSE IF SetLineNumberPanics(info, current) THEN ReaderPanics(r)
        ELSE IF line = NoLine
             THEN Effect([r EXCEPT !.print_info = i1], <<EvPrintEnd>>, <<>>, <<>>)
             ELSE Effect([r EXCEPT !.print_info = i2], progress,
                         <<PrintLineSend(line, id)>>, <<>>)

\* handle_ok_response, arm Continue in CONNECTED.
ContinueConnected(r) ==
    IF r.message_queue # <<>>
    THEN Effect([r EXCEPT !.message_queue = Tail(@)], <<>>,
                <<EvTerminalSend(Head(r.message_queue).content,
                                 Head(r.message_queue).id)>>, <<>>)
    ELSE Effect([r EXCEPT !.ready = TRUE], <<>>, <<>>, <<>>)

\* handle_ok_response, arm Resend.
ResendPrinting(r, n, id) ==
    LET info == r.print_info
        i1 == report_resend(info)
        line == get_line_by_index(i1, n)
        i2 == set_line_number(i1, n)
    IN  IF ~info.some THEN Effect(r, <<>>, <<>>, <<>>)
        ELSE IF ResendRatioTooHigh(i1)
             THEN Effect([r EXCEPT !.print_info = i1],
                         <<EvStateUpdate("ERRORED", DescError(MsgResendRatio))>>,
                         <<>>, <<>>)
        ELSE IF SetLineNumberPanics(i1, n)
             THEN ReaderPanics([r EXCEPT !.print_info = i1])
        ELSE IF line # NoLine
             THEN Effect([r EXCEPT !.print_info = i2], <<>>,
                         <<PrintLineSend(line, id)>>, <<>>)
             ELSE Effect([r EXCEPT !.print_info = i2],
                         <<EvStateUpdate("ERRORED", DescError(MsgCannotResend))>>,
                         <<>>, <<>>)

\* An Error arm that publishes nothing.
ErrorDecisionSilent(r) == Effect(r, <<>>, <<>>, <<>>)

\* handle_ok_response, arm Error.
ErrorDecision(r) ==
    Effect(r, <<EvStateUpdate("ERRORED", DescError(MsgUnknownError))>>, <<>>, <<>>)

handle_ok_response(r, phase, id) ==
    LET action == parse_responses(r.collected_responses)
        r0 == [r EXCEPT !.collected_responses = <<>>, !.collected = <<>>]
    IN  CASE action.kind = "Continue" ->
                 IF phase = "PRINTING" THEN ContinuePrinting(r0, action.line, id)
                 ELSE IF phase = "CONNECTED" THEN ContinueConnected(r0)
                 ELSE Effect(r0, <<>>, <<>>, <<>>)
          [] action.kind = "Error" -> ErrorDecision(r0)
          [] OTHER ->
                 IF phase = "PRINTING" THEN ResendPrinting(r0, action.line, id)
                 ELSE Effect(r0, <<>>, <<>>, <<>>)

\* A handshake that asks for temperature reports whatever the firmware offers.
RECURSIVE FollowUpsAlwaysReport(_)
FollowUpsAlwaysReport(caps) ==
    IF caps = <<>> THEN <<>>
    ELSE <<S_M155_S2>>
         \o (IF Contains(Head(caps), S_Cap_EEPROM_1) THEN <<S_M501>> ELSE <<>>)
         \o FollowUpsAlwaysReport(Tail(caps))

\* The commands pushed for the capability batch, in the order of the pushes.
RECURSIVE FollowUps(_)
FollowUps(caps) ==
    IF caps = <<>> THEN <<>>
    ELSE (IF Contains(Head(caps), S_Cap_AUTOREPORT_TEMP_1) THEN <<S_M155_S2>> ELSE <<>>)
         \o (IF Contains(Head(caps), S_Cap_EEPROM_1) THEN <<S_M501>> ELSE <<>>)
         \o FollowUps(Tail(caps))

\* A test that takes a batch for Marlin's when any of its lines names it.
IsMarlinBatchAnyLine(batch) ==
    \E i \in 1..Len(batch) : StartsWith(batch[i], S_FIRMWARE_NAME_Marlin)

\* The test on the first line of the batch that an ok closes.
IsMarlinBatch(batch) == StartsWith(batch[1], S_FIRMWARE_NAME_Marlin)

\* A line read while the snapshot is CONNECTING.
ReaderConnecting(r, c, id, okw) ==
    LET error == IF StartsWith(ToLower(c), S_error)
                 THEN <<EvStateUpdate("ERRORED", DescError(c))>> ELSE <<>>
        left == r.commands_left_to_send
    IN  IF r.has_collected_capabilities
        THEN IF left = <<>>
             THEN Effect([r EXCEPT !.collected = <<>>, !.collected_responses = <<>>],
                         error \o <<EvStateUpdate("CONNECTED",
                                       DescCapability(r.collected_responses))>>,
                         <<>>, <<>>)
             ELSE Effect([r EXCEPT !.collected = <<>>,
                                   !.commands_left_to_send = SubSeq(left, 1, Len(left) - 1)],
                         error \o <<EvTerminalSend(left[Len(left)], id)>>, <<>>, <<>>)
        ELSE IF StartsWith(c, S_ok)
        THEN IF r.collected_responses = <<>>
             THEN Effect([r EXCEPT !.collected = c], error, <<>>, <<>>)
             ELSE IF ~IsMarlinBatch(r.collected_responses)
             THEN IF okw
                  THEN Effect([r EXCEPT !.collected = <<>>, !.collected_responses = <<>>],
                              error, <<>>, <<S_M115>>)
                  ELSE [Effect([r EXCEPT !.collected_responses = <<>>,
                                         !.reader_task = FALSE], error, <<>>, <<>>)
                           EXCEPT !.attempted = TRUE, !.failed = TRUE]
             ELSE Effect([r EXCEPT !.collected = <<>>,
                                   !.commands_left_to_send = @ \o FollowUps(r.collected_responses),
                                   !.collected_responses = Append(@, c),
                                   !.has_collected_capabilities = TRUE],
                         error \o <<EvTerminalSend(S_G90, id)>>, <<>>, <<>>)
        ELSE Effect([r EXCEPT !.collected = <<>>, !.collected_responses = Append(@, c)],
                    error, <<>>, <<>>)

\* A reader that echoes every line to the terminal, temperature reports too.
SessionPublishEchoAll(c) == <<WsTerminalRead(c)>>

\* What a line read outside CONNECTING publishes to the clients.
SessionPublish(c) ==
    IF IsTemperature(c) THEN <<WsTempUpdate(c)>> ELSE <<WsTerminalRead(c)>>

\* A line read while the snapshot is anything but CONNECTING.
ReaderSession(r, phase, c, id) ==
    LET r1 == IF IsTemperature(c) THEN r
              ELSE [r EXCEPT !.collected_responses = Append(@, c)]
        e == handle_ok_response(r1, phase, id)
    IN  IF StartsWith(c, S_ok)
        THEN [e EXCEPT !.r.collected = <<>>, !.dist = SessionPublish(c) \o @]
        ELSE Effect([r1 EXCEPT !.collected = <<>>], SessionPublish(c), <<>>, <<>>)

ReaderLine(r, phase, c, id, okw) ==
    IF phase = "CONNECTING" THEN ReaderConnecting(r, c, id, okw)
    ELSE ReaderSession(r, phase, c, id)

ReaderRuns(b) == ~panicked /\ br[b].reader_task

\* A commands' count after this line: an ok answers one, each write adds one.
InFlightAfter(n, c, writes) ==
    (IF StartsWith(c, S_ok) /\ n > 0 THEN n - 1 ELSE n) + Len(writes)

\* The reader's step for the line c, given what the line does.
ReadLineEffect(b, c, okw, e) ==
    /\ e.attempted \/ okw
    /\ br' = [br EXCEPT ![b] = e.r]
    /\ dist' = dist \o e.dist
    /\ inbox' = inbox \o e.inbox
    /\ serial_out' = serial_out \o
                       [i \in 1..Len(e.writes) |-> Written(b, e.writes[i])]
    /\ in_flight' = [in_flight EXCEPT ![b] = InFlightAfter(@, c, e.writes)]
    /\ next_id' = next_id + e.ids
    /\ budget' = [SpendIo(~e.failed) EXCEPT !.lines = @ - 1]

\* The reader of Bridge b reads the line l.
ReadLineOf(b, l) ==
    /\ ReaderRuns(b)
    /\ ~br[b].canceled
    /\ budget.lines > 0
    /\ \E okw \in WriteOutcomes :
          ReadLineEffect(b, br[b].collected \o l, okw,
                         ReaderLine(br[b], state.state, br[b].collected \o l,
                                    next_id, okw))
    /\ UNCHANGED <<bridge_thread, state, panicked, frames, fw_lines>>

\* The lines the firmware may send next: any of its lines, or the next line
\* of its script when it follows one.
Offered ==
    IF budget.script = <<>> THEN fw_lines
    ELSE IF budget.lines = 0 THEN {}
    ELSE {budget.script[Len(budget.script) - budget.lines + 1]}

ReadLine(b) == \E l \in Offered : ReadLineOf(b, l)

\* A read that times out: the reader drains the queue when the gate is open.
ReadTimeout(b) ==
    /\ ReaderRuns(b)
    /\ ~br[b].canceled
    /\ IF br[b].ready /\ br[b].message_queue # <<>>
       THEN /\ br' = [br EXCEPT ![b].message_queue = Tail(@)]
            /\ inbox' = Append(inbox, EvTerminalSend(Head(br[b].message_queue).content,
                                                     Head(br[b].message_queue).id))
       ELSE UNCHANGED <<br, inbox>>
    /\ UNCHANGED <<dist, bridge_thread, state, panicked, frames, serial_out,
                   in_flight, next_id, fw_lines, budget>>

\* A read that fails with another error.
ReadError(b) ==
    /\ ReaderRuns(b)
    /\ ~br[b].canceled
    /\ budget.io > 0
    /\ br' = [br EXCEPT ![b].reader_task = FALSE]
    /\ dist' = Append(dist, EvStateUpdate("ERRORED", DescError(MsgIo)))
    /\ budget' = [budget EXCEPT !.io = @ - 1]
    /\ UNCHANGED <<inbox, bridge_thread, state, panicked, frames, serial_out,
                   in_flight, next_id, fw_lines>>

\* Any return of read after the cancel flag is set ends the reader.
ReadCanceled(b) ==
    /\ ReaderRuns(b)
    /\ br[b].canceled
    /\ br' = [br EXCEPT ![b].reader_task = FALSE]
    /\ UNCHANGED <<dist, inbox, bridge_thread, state, panicked, frames,
                   serial_out, in_flight, next_id, fw_lines, budget>>

(***************************************************************************)
(* Initial states.                                                         *)
(***************************************************************************)
\* What the environment does in one behaviour: how many lines the firmware
\* sends and which, how many requests the front-end makes, how many I/O
\* operations fail.  A behaviour from the start connects and uses the
\* session, or connects again and again.
Scenarios ==
    { [lines |-> MaxLines, api |-> MaxApi, creates |-> 1, io |-> MaxIoErrors,
       fw |-> ConnectLines, script |-> <<>>],
      [lines |-> 1, api |-> 0, creates |-> MaxCreates, io |-> MaxIoErrors,
       fw |-> {L_error}, script |-> <<>>] }
    \cup { [lines |-> Len(sc), api |-> 0, creates |-> 1, io |-> 0,
            fw |-> {sc[i] : i \in 1..Len(sc)}, script |-> sc] :
               sc \in {ProbeScript, ForeignScript} \cup ProbeAnswers }

\* A behaviour from the connected state prints.
PrintScenarios ==
    { [lines |-> MaxPrintLines, api |-> 1, creates |-> 0, io |-> 0,
       fw |-> PrintLines, script |-> <<>>] }

\* Manager::new, and the boot of Manager::start (connect_boot).
InitStart ==
    /\ \E sc \in Scenarios, boot \in BOOLEAN :
          /\ dist = IF boot THEN <<EvConnectionCreate>> ELSE <<>>
          /\ budget = [lines |-> sc.lines, api |-> sc.api, io |-> sc.io,
                       creates |-> IF boot THEN sc.creates - 1 ELSE sc.creates,
                       script |-> sc.script]
          /\ fw_lines = sc.fw
    /\ inbox = <<>>
    /\ bridge_thread = 0
    /\ state = StateWrapper("DISCONNECTED", DescNone)
    /\ panicked = FALSE
    /\ frames = <<>>
    /\ br = <<>>
    /\ serial_out = <<>>
    /\ in_flight = <<>>
    /\ next_id = 1

\* The state the program is in when the first Bridge has connected to a
\* Marlin firmware that reports no capability: M115 was answered by the
\* firmware line and ok, G90 was sent and answered by ok, the watchdog has
\* run, and the Supervisor and the inbox task have handled every event.
HandshakeDone ==
    /\ dist = <<>>
    /\ inbox = <<>>
    /\ bridge_thread = 1
    /\ state = StateWrapper("CONNECTED", DescCapability(<<L_firmware, S_ok>>))
    /\ panicked = FALSE
    /\ frames = <<StateFrame(WsStateUpdate("CONNECTING", DescNone)),
                  StateFrame(WsStateUpdate("CONNECTED",
                                 DescCapability(<<L_firmware, S_ok>>)))>>
    /\ br = <<[NewBridge EXCEPT !.status = "running", !.timer = "fired",
                                !.inbox_task = TRUE, !.reader_task = TRUE,
                                !.has_collected_capabilities = TRUE]>>
    /\ serial_out = <<Written(1, S_M115), Written(1, WithNewline(S_G90))>>
    /\ in_flight = <<0>>
    /\ next_id = 2

InitConnected ==
    /\ HandshakeDone
    /\ \E sc \in PrintScenarios :
          /\ budget = [lines |-> sc.lines, api |-> sc.api, io |-> sc.io,
                       creates |-> sc.creates, script |-> sc.script]
          /\ fw_lines = sc.fw

Init == InitStart \/ InitConnected

(***************************************************************************)
(* The reader examined one line at a time: the Bridge is connected or      *)
(* prints, a batch of lines waits in collected_responses, and the firmware *)
(* sends the line that closes it.                                          *)
(***************************************************************************)
\* Lines that wait in a batch: none of them begins with ok.
BatchLines ==
    {L_error, L_line_mismatch, L_echo}
       \cup {ResendLine(k) : k \in {Cursor - 3, Cursor, JobLines, JobLines + 2,
                                     BigJobLines, BigJobLines + 2}}

Batches ==
    UNION {[1..n -> BatchLines] : n \in 0..MaxBatch}

\* Lines that close a batch.
Closers ==
    {S_ok, L_ok_temp, L_ok_temp_bed, OkLine(Cursor + 1), OkLine(JobLines - 1),
     OkLine(JobLines + 2)}

\* The sum of the lengths of the lines a..b of ls, by halving.
RECURSIVE SumLenOf(_, _, _)
SumLenOf(ls, a, b) ==
    IF a > b THEN 0
    ELSE IF a = b THEN Len(ls[a])
    ELSE SumLenOf(ls, a, (a + b) \div 2) + SumLenOf(ls, ((a + b) \div 2) + 1, b)

ReaderJobs ==
    Jobs \cup {PrintInfoNew(JobFile, SumLenOf(BigJobGcode, 2, BigJobLines), BigJobGcode)}

\* The job after  ok N<n>  answered the M110 N0 of a fresh print: the cursor
\* is n and line n + 1 has been submitted.
Underway(job, n) ==
    IF n = 0 THEN job
    ELSE add_bytes_sent(set_line_number(job, n),
                        Len(get_line_by_index(job, n + 1).content))

\* The texts written for that print so far.
UnderwayWrites(job, n) ==
    <<Written(1, WithNewline(S_M110_N0))>>
       \o (IF n = 0 THEN <<>>
           ELSE <<Written(1, WithNewline(
                    PrintLineSend(get_line_by_index(job, n + 1), 3).message))>>)

\* The Errored transitions the reader published for the error lines of a
\* batch collected while connecting, not yet handled by the Supervisor.
RECURSIVE ErrorsOf(_)
ErrorsOf(batch) ==
    IF batch = <<>> THEN <<>>
    ELSE (IF StartsWith(ToLower(Head(batch)), S_error)
          THEN <<EvStateUpdate("ERRORED", DescError(Head(batch)))>> ELSE <<>>)
         \o ErrorsOf(Tail(batch))

\* The echoes of the lines of a batch collected in a session, not yet
\* handled by the Supervisor.
EchoesOf(batch) == [i \in 1..Len(batch) |-> WsTerminalRead(batch[i])]

InitReader ==
    \E phase \in {"CONNECTING", "CONNECTED", "PRINTING"}, job \in ReaderJobs,
       n \in {0, Cursor}, batch \in Batches :
       /\ dist = IF phase = "CONNECTING" THEN ErrorsOf(batch) ELSE EchoesOf(batch)
       /\ inbox = <<>>
       /\ bridge_thread = 1
       /\ panicked = FALSE
       /\ state = CASE phase = "PRINTING" -> StateWrapper("PRINTING", DescPrint(job))
                    [] phase = "CONNECTED" ->
                          StateWrapper("CONNECTED", DescCapability(<<L_firmware, S_ok>>))
                    [] OTHER -> StateWrapper("CONNECTING", DescNone)
       /\ frames = <<StateFrame(WsStateUpdate("CONNECTING", DescNone))>>
                      \o (IF phase # "CONNECTING"
                          THEN <<StateFrame(WsStateUpdate("CONNECTED",
                                    DescCapability(<<L_firmware, S_ok>>)))>>
                          ELSE <<>>)
                      \o (IF phase = "PRINTING"
                          THEN <<StateFrame(WsStateUpdate("PRINTING", DescPrint(job)))>>
                          ELSE <<>>)
       /\ br = <<[NewBridge EXCEPT !.status = "running",
                                   !.timer = IF phase = "CONNECTING" THEN "armed"
                                             ELSE "fired",
                                   !.inbox_task = TRUE, !.reader_task = TRUE,
                                   !.has_collected_capabilities = phase # "CONNECTING",
                                   !.print_info = IF phase = "PRINTING"
                                                  THEN Underway(job, n) ELSE NoJob,
                                   !.collected_responses = batch]>>
       /\ serial_out = <<Written(1, S_M115)>>
                          \o (IF phase # "CONNECTING"
                              THEN <<Written(1, WithNewline(S_G90))>> ELSE <<>>)
                          \o (IF phase = "PRINTING" THEN UnderwayWrites(job, n)
                              ELSE <<>>)
       /\ in_flight = <<IF phase = "CONNECTED" THEN 0 ELSE 1>>
       /\ next_id = 4
       /\ fw_lines = Closers
       /\ budget = [lines |-> 1, api |-> 0, io |-> 0, creates |-> 0,
                    script |-> <<>>]

(***************************************************************************)
(* The specification.                                                      *)
(***************************************************************************)
Api ==
    \/ ApiCreateConnection
    \/ ApiDisconnect
    \/ ApiTerminal
    \/ ApiStartPrint
    \/ ApiCancelPrint

Supervisor ==
    \/ SupConnectionCreate
    \/ SupConnectionCreateError
    \/ SupTerminalSend
    \/ SupPrintEnd
    \/ SupPrintStart
    \/ SupStateUpdate
    \/ SupWsStateUpdate
    \/ SupForward

Bridge ==
    \/ \E b \in Bridges : BridgeStart(b)
    \/ \E b \in Bridges : Timeout(b)
    \/ \E b \in Bridges : InboxKill(b)
    \/ \E b \in Bridges : InboxTerminalSend(b)
    \/ \E b \in Bridges : InboxPrintEnd(b)
    \/ \E b \in Bridges : InboxPrintStart(b)
    \/ \E b \in Bridges : InboxStateUpdate(b)
    \/ \E b \in Bridges : ReadLine(b)
    \/ \E b \in Bridges : ReadTimeout(b)
    \/ \E b \in Bridges : ReadError(b)
    \/ \E b \in Bridges : ReadCanceled(b)

Next ==
    \/ Api
    \/ Supervisor
    \/ Bridge

Spec == Init /\ [][Next]_vars

\* The most Bridges one behaviour spawns: one at boot, one for each request.
MaxBridges == MaxCreates + 1

\* The loop of the inbox task of Bridge b: try_recv, then the event's arm.
InboxTask(b) ==
    /\ b \in Bridges
    /\ \/ InboxKill(b)
       \/ InboxTerminalSend(b)
       \/ InboxPrintEnd(b)
       \/ InboxPrintStart(b)
       \/ InboxStateUpdate(b)

\* The return of a read of Bridge b's reader after the cancel flag is set.
ReaderLeaves(b) == b \in Bridges /\ ReadCanceled(b)

\* The program under its scheduler: an inbox task that runs polls its channel
\* again and again, and a read of the reader returns within its timeout.
SpecFair ==
    /\ Spec
    /\ \A b \in 1..MaxBridges : WF_vars(InboxTask(b)) /\ WF_vars(ReaderLeaves(b))

\* The reader alone, from the states above.
NextReader == \E b \in Bridges : ReadLine(b)

SpecReader == InitReader /\ [][NextReader]_vars

(***************************************************************************)
(* The wire form of a print line: the reader answers the firmware's ok     *)
(* with the checksummed form of the next line of the job.                  *)
(***************************************************************************)
L_G28 == <<"G", "2", "8">>
L_G1_X10_Y20 == <<"G", "1", " ", "X", "1", "0", " ", "Y", "2", "0">>

\* The texts of length 1..n over the letters of a move and the space.
TextsUpTo(n) == UNION {[1..k -> {"G", "1", " "}] : k \in 1..n}

\* The texts of the print line whose wire form is examined, and its indexes.
WireTexts == {L_G28, L_G1_X10_Y20} \cup TextsUpTo(MaxText)
WireIndexes == {1, 10}

\* A job whose line i is the text x.
WireGcode(i, x) ==
    [k \in 1..(i + 1) |-> IF k = 1 THEN S_M110_N0
                          ELSE IF k = i + 1 THEN x ELSE GcodeMove \o Dec(k - 1)]
WireJob(i, x) ==
    PrintInfoNew(JobFile, SumLenOf(WireGcode(i, x), 2, i + 1), WireGcode(i, x))

\* A print of such a job has started and M110 N0 is written; the firmware's
\* answer acknowledges line i - 1.
InitWire ==
    \E i \in WireIndexes, x \in WireTexts :
       /\ dist = <<>>
       /\ inbox = <<>>
       /\ bridge_thread = 1
       /\ panicked = FALSE
       /\ state = StateWrapper("PRINTING", DescPrint(WireJob(i, x)))
       /\ frames = <<StateFrame(WsStateUpdate("CONNECTING", DescNone)),
                     StateFrame(WsStateUpdate("CONNECTED",
                                   DescCapability(<<L_firmware, S_ok>>))),
                     StateFrame(WsStateUpdate("PRINTING", DescPrint(WireJob(i, x))))>>
       /\ br = <<[NewBridge EXCEPT !.status = "running", !.timer = "fired",
                                   !.inbox_task = TRUE, !.reader_task = TRUE,
                                   !.has_collected_capabilities = TRUE,
                                   !.print_info = WireJob(i, x)]>>
       /\ serial_out = <<Written(1, S_M115), Written(1, WithNewline(S_G90))>>
                          \o UnderwayWrites(WireJob(i, x), 0)
       /\ in_flight = <<1>>
       /\ next_id = 4
       /\ fw_lines = {OkLine(i - 1)} \cup (IF i = 1 THEN {S_ok} ELSE {})
       /\ budget = [lines |-> 1, api |-> 0, io |-> 0, creates |-> 0,
                    script |-> <<>>]

SpecWire == InitWire /\ [][NextReader]_vars

(***************************************************************************)
(* The boot of the Supervisor (main.rs, connect_boot) over the settings    *)
(* table.                                                                  *)
(***************************************************************************)
\* SettingRow::from_row: the typed columns of a row of the settings table.
\* Type 1 is a boolean, type 2 an unsigned number, any other type a text.
SettingRow(id, value, type) ==
    [id |-> id, raw_value |-> value, row_type |-> type,
     bool |-> IF type # 1 THEN "none"
              ELSE IF value = S_1 \/ value = S_true THEN "true" ELSE "false",
     number |-> IF type # 2 THEN None
                ELSE IF Len(value) = 0 THEN 0 ELSE ParseNat(value)]

\* The rows the table may hold for the three settings of the boot.
BootRows ==
    {SettingRow("B_startOnBoot", v, ty) : v \in {S_1, S_true, S_0, <<>>}, ty \in {0, 1}}
BaudRows ==
    {SettingRow("N_deviceBaud", v, ty) :
        v \in {<<>>, S_0, S_115200}, ty \in {0, 2}}
PathRows == {SettingRow("S_devicePath", v, 0) : v \in {<<>>, S_dev_ttyUSB0}}

\* The results of the query of connect_boot: at most one row for each id.
Settings ==
    {a \cup b \cup c : a \in {{}} \cup {{r} : r \in BootRows},
                       b \in {{}} \cup {{r} : r \in BaudRows},
                       c \in {{}} \cup {{r} : r \in PathRows}}

\* The row of the result with the given id.
RowOf(rows, id) == CHOOSE r \in rows : r.id = id

\* Manager::connect_boot: the events it sends, and whether it panics on the
\* unwrap of a column the row does not have.  The cast of the number to u32
\* is the identity on the baud rates drawn here.
connect_boot(rows) ==
    IF Cardinality(rows) # 3 THEN [events |-> <<>>, panics |-> FALSE]
    ELSE LET connect == RowOf(rows, "B_startOnBoot").bool
             number == RowOf(rows, "N_deviceBaud").number
             baud_rate == number
         IN  IF connect = "none" \/ number = None
             THEN [events |-> <<>>, panics |-> TRUE]
             ELSE IF connect = "true" /\ baud_rate # 0
             THEN [events |-> <<EvConnectionCreate>>, panics |-> FALSE]
             ELSE [events |-> <<>>, panics |-> FALSE]

\* Manager::new, and Manager::start up to the call of connect_boot.
InitBoot ==
    /\ \E rows \in Settings :
          budget = [lines |-> 0, api |-> 0, creates |-> 0, io |-> 0,
                    script |-> <<>>, settings |-> rows, boot |-> "pending"]
    /\ fw_lines = {}
    /\ dist = <<>>
    /\ inbox = <<>>
    /\ bridge_thread = 0
    /\ state = StateWrapper("DISCONNECTED", DescNone)
    /\ panicked = FALSE
    /\ frames = <<>>
    /\ br = <<>>
    /\ serial_out = <<>>
    /\ in_flight = <<>>
    /\ next_id = 1

\* The call of connect_boot in Manager::start.
ConnectBoot ==
    /\ budget.boot = "pending"
    /\ dist' = dist \o connect_boot(budget.settings).events
    /\ panicked' = connect_boot(budget.settings).panics
    /\ budget' = [budget EXCEPT !.boot = "done"]
    /\ UNCHANGED <<inbox, bridge_thread, state, frames, br, serial_out,
                   in_flight, next_id, fw_lines>>

NextBoot == ConnectBoot

SpecBoot == InitBoot /\ [][NextBoot]_vars

(***************************************************************************)
(* Properties.                                                             *)
(***************************************************************************)
\* C1: within one Bridge at most one command is in flight on the serial
\* link: once a command is written, no further command is written until an
\* ok has been read for it.
C1_OneCommandInFlight == \A b \in Bridges : in_flight[b] <= 1

\* C2: a Send that the inbox task takes in Connected while a written command
\* is still unanswered (the gate is closed) is not written at that step: its
\* write waits for the next ok.
C2_SendWaitsForOk ==
    [][\A b \in Bridges :
          (InboxTerminalSend(b) /\ state.state = "CONNECTED" /\ in_flight[b] > 0)
              => serial_out' = serial_out]_vars

\* The line number of the Resend that the batch of Bridge b asks for when the
\* line l completes it, or None.
ResendAsked(b, l) ==
    LET c == br[b].collected \o l
        batch == IF IsTemperature(c) THEN br[b].collected_responses
                 ELSE Append(br[b].collected_responses, c)
    IN  IF StartsWith(c, S_ok) /\ parse_responses(batch).kind = "Resend"
        THEN parse_responses(batch).line ELSE None

\* The event e is sent to the distributor in this step.
Published(e) == \E i \in (Len(dist) + 1)..Len(dist') : dist'[i] = e

\* C3: while printing, a Resend(k) with k at most one more than the
\* acknowledged line makes line k the next print line submitted for writing.
C3_ResendRewinds ==
    [][\A b \in Bridges, l \in fw_lines :
          (/\ ReadLineOf(b, l)
           /\ state.state = "PRINTING"
           /\ br[b].print_info.some
           /\ ResendAsked(b, l) # None
           /\ ResendAsked(b, l) <= br[b].print_info.line_number + 1
           /\ ResendAsked(b, l) < Len(br[b].print_info.gcode))
              => inbox' = Append(inbox,
                     PrintLineSend(get_line_by_index(br[b].print_info, ResendAsked(b, l)),
                                   next_id))]_vars

\* Whether the resends counted in a job are more than 10% of its lines.
TenPercentExceeded(info) == info.resend_amount * 10 > Len(info.gcode)

\* C7: a Resend handled in Printing publishes Errored "Resend ratio went above
\* 10%" exactly when, this resend counted, resends / total lines > 0.10; one
\* resend in a job of 20 lines publishes no error.
C7_ResendRatio ==
    [][\A b \in Bridges, l \in fw_lines :
          (/\ ReadLineOf(b, l)
           /\ state.state = "PRINTING"
           /\ br[b].print_info.some
           /\ ResendAsked(b, l) # None)
              => (Published(EvStateUpdate("ERRORED", DescError(MsgResendRatio)))
                    <=> TenPercentExceeded(report_resend(br[b].print_info)))]_vars

\* C4: at most one Bridge is live: never two inbox tasks and never two
\* reader tasks run at the same time.
C4_OneLiveBridge ==
    /\ Cardinality({b \in Bridges : br[b].inbox_task}) <= 1
    /\ Cardinality({b \in Bridges : br[b].reader_task}) <= 1

\* The events a task other than the Supervisor sends to the distributor in
\* this step, oldest first.
NewEvents == SubSeq(dist', Len(dist) + 1, Len(dist'))

\* How many of the events es are of the type t.
CountOf(es, t) == Len(SelectSeq(es, LAMBDA e : e.t = t))

\* C5: every successful write of a text to the serial link, the initial M115
\* included, publishes a TerminalOut with that text in the step that writes.
C5_WriteHasTerminalOut ==
    [][\A i \in (Len(serial_out) + 1)..Len(serial_out') :
          \E j \in (Len(dist) + 1)..Len(dist') :
             /\ dist'[j].t = "WsTerminalSend"
             /\ dist'[j].message = serial_out'[i].text]_vars

\* C6 as stated: a temperature line read in any phase publishes no TerminalIn
\* and one TempUpdate; a non-temperature line read in Connected or Printing
\* publishes exactly one TerminalIn.
C6_TemperatureAnyPhase ==
    [][\A b \in Bridges, l \in fw_lines :
          ReadLineOf(b, l) =>
             /\ IsTemperature(br[b].collected \o l)
                   => /\ CountOf(NewEvents, "WsTerminalRead") = 0
                      /\ CountOf(NewEvents, "WsTempUpdate") = 1
             /\ (~IsTemperature(br[b].collected \o l)
                   /\ state.state \in {"CONNECTED", "PRINTING"})
                   => CountOf(NewEvents, "WsTerminalRead") = 1]_vars

\* C6: a temperature line never publishes a TerminalIn, in any phase; read in
\* a phase other than Connecting it publishes one TempUpdate, first of the
\* events of that line, and read in Connecting it publishes none.  A
\* non-temperature line read in Connected or Printing publishes exactly one
\* TerminalIn, with the text read, first of the events of that line (so in
\* read order).
C6_TemperatureLines ==
    [][\A b \in Bridges, l \in fw_lines :
          ReadLineOf(b, l) =>
             /\ IsTemperature(br[b].collected \o l)
                   => CountOf(NewEvents, "WsTerminalRead") = 0
             /\ (IsTemperature(br[b].collected \o l) /\ state.state # "CONNECTING")
                   => /\ CountOf(NewEvents, "WsTempUpdate") = 1
                      /\ NewEvents[1] = WsTempUpdate(br[b].collected \o l)
             /\ (IsTemperature(br[b].collected \o l) /\ state.state = "CONNECTING")
                   => CountOf(NewEvents, "WsTempUpdate") = 0
             /\ (~IsTemperature(br[b].collected \o l)
                   /\ state.state \in {"CONNECTED", "PRINTING"})
                   => /\ CountOf(NewEvents, "WsTerminalRead") = 1
                      /\ NewEvents[1] = WsTerminalRead(br[b].collected \o l)]_vars

\* C6, reached: while printing, a temperature report and an ok have been read
\* and their TempUpdate and TerminalIn wait in the distributor, in read order.
C6_Reached ==
    /\ state.state = "PRINTING"
    /\ \E i, j \in 1..Len(dist) :
          /\ i < j
          /\ dist[i] = WsTempUpdate(L_temp)
          /\ dist[j] = WsTerminalRead(S_ok)

\* C8: when the Supervisor handles the Errored "Timed out" of the watchdog,
\* it broadcasts the state_update with that description and tears the Bridge
\* down: Kill goes to the Bridge and the slot is cleared.
C8_TimedOut ==
    [][(SupStateUpdate /\ Head(dist) = EvStateUpdate("ERRORED", DescError(MsgTimedOut)))
          => /\ dist' = Append(Tail(dist),
                               WsStateUpdate("ERRORED", DescError(MsgTimedOut)))
             /\ inbox' = Append(inbox, EvKill)
             /\ bridge_thread # 0 /\ bridge_thread' = 0]_vars

\* C9: every transition to Errored that a Bridge publishes is broadcast as a
\* state_update frame with its description when the Supervisor handles it.
C9_ErroredBroadcast ==
    [][(SupStateUpdate /\ Head(dist).state = "ERRORED")
          => dist' = Append(Tail(dist),
                            WsStateUpdate("ERRORED", Head(dist).description))]_vars

\* C10: a start whose open fails, whatever the kind, publishes exactly one
\* ConnectError and starts no task; the Supervisor, handling a ConnectError,
\* sets the phase of the snapshot to Errored and clears the slot.
C10_OpenFailure ==
    [][/\ \A b \in Bridges :
            (BridgeStart(b) /\ br'[b].status # "running")
               => /\ CountOf(NewEvents, "ConnectionCreateError") = 1
                  /\ ~br'[b].inbox_task /\ ~br'[b].reader_task
                  /\ serial_out' = serial_out
       /\ SupConnectionCreateError
            => state'.state = "ERRORED" /\ bridge_thread' = 0]_vars

\* The Errored transition that carries the message of an I/O error.
ErroredIo == EvStateUpdate("ERRORED", DescError(MsgIo))

\* C11: a failed serial write of the inbox task and a failed read of the
\* reader task (other than a timeout) each publish Errored with the I/O
\* message and nothing else, so no TerminalOut for the failed write; and when
\* the Supervisor handles that Errored while an inbox task is still running,
\* a Kill for the Bridge is in the Bridge channel afterwards.
C11_IoErrorKills ==
    [][/\ \A b \in Bridges :
            (InboxTerminalSend(b) /\ budget'.io < budget.io)
               => NewEvents = <<ErroredIo>> /\ serial_out' = serial_out
       /\ \A b \in Bridges : ReadError(b) => NewEvents = <<ErroredIo>>
       /\ (SupStateUpdate /\ Head(dist) = ErroredIo
              /\ \E b \in Bridges : br[b].inbox_task)
            => \E i \in 1..Len(inbox') : inbox'[i] = EvKill]_vars

\* The decision taken on the batch of Bridge b when the line l closes it.
DecisionOf(b, l) ==
    LET c == br[b].collected \o l
    IN  parse_responses(IF IsTemperature(c) \/ state.state = "CONNECTING"
                        THEN br[b].collected_responses
                        ELSE Append(br[b].collected_responses, c))

\* The line l, read by Bridge b in this step, begins with ok, and the batch
\* it closes yields the decision kind k.
Decides(b, l, k) ==
    /\ ReadLineOf(b, l)
    /\ StartsWith(br[b].collected \o l, S_ok)
    /\ DecisionOf(b, l).kind = k

\* What C12 asks of the step that closes a batch with the Error decision.
UnknownErrorOnly(b) ==
    /\ CountOf(NewEvents, "StateUpdate") = 1
    /\ Published(EvStateUpdate("ERRORED", DescError(MsgUnknownError)))
    /\ CountOf(NewEvents, "TerminalSend") = 0
    /\ inbox' = inbox
    /\ serial_out' = serial_out
    /\ br'[b].print_info = br[b].print_info

\* C12 as stated: the Error decision publishes Errored "Bridge encountered
\* unknown error" in every phase, submits no Send and keeps the cursor.
C12_UnknownErrorAnyPhase ==
    [][\A b \in Bridges, l \in fw_lines :
          Decides(b, l, "Error") => UnknownErrorOnly(b)]_vars

\* C12: in a phase other than Connecting the Error decision publishes exactly
\* one transition, Errored "Bridge encountered unknown error", submits no
\* Send, writes nothing and keeps the print job as it was; in Connecting the
\* ok that closes such a batch takes no decision: it publishes no such
\* transition and keeps the print job as it was.
C12_UnknownError ==
    [][\A b \in Bridges, l \in fw_lines :
          Decides(b, l, "Error") =>
             IF state.state # "CONNECTING" THEN UnknownErrorOnly(b)
             ELSE /\ ~Published(EvStateUpdate("ERRORED", DescError(MsgUnknownError)))
                  /\ br'[b].print_info = br[b].print_info]_vars

\* C12, reached: while printing with the cursor on a line, a batch with an
\* error line was closed by ok and the Errored transition waits in the
\* distributor, the cursor unchanged.
C12_Reached ==
    /\ state.state = "PRINTING"
    /\ \E b \in Bridges :
          /\ br[b].print_info.line_number = Cursor
          /\ br[b].collected_responses = <<>>
    /\ dist = <<WsTerminalRead(L_error), WsTerminalRead(S_ok),
                EvStateUpdate("ERRORED", DescError(MsgUnknownError))>>

\* The batch that the line l closes for Bridge b in a session, as
\* handle_ok_response passes it to the parser.
ClosedBatch(b, l) ==
    LET c == br[b].collected \o l
    IN  IF IsTemperature(c) THEN br[b].collected_responses
        ELSE Append(br[b].collected_responses, c)

\* The lines of a batch that ask for a resend, that begin with ok, that begin
\* with error, and that are the line-number mismatch.
ResendsIn(batch) == {i \in 1..Len(batch) : ResendLineNumber(batch[i]) # None}
OksIn(batch) == {i \in 1..Len(batch) : StartsWith(batch[i], S_ok)}
ErrorsIn(batch) == {i \in 1..Len(batch) : StartsWith(ToLower(batch[i]), S_error)}
MismatchesIn(batch) == {i \in 1..Len(batch) : StartsWith(batch[i], S_LineNumberError)}

\* C13: the decision on a closed batch: Resend(line), with the line of one of
\* its Resend lines, whenever it holds a Resend line, error lines or not;
\* never Error when its only error lines are line-number mismatches; Error
\* when it holds another error line and no Resend; Continue otherwise, with
\* the number acknowledged by its last ok (none when that ok carries none or
\* the batch holds no ok).
C13_DecisionPriority ==
    [][\A b \in Bridges, l \in fw_lines :
          (/\ ReadLineOf(b, l)
           /\ state.state # "CONNECTING"
           /\ StartsWith(br[b].collected \o l, S_ok))
              => LET batch == ClosedBatch(b, l)
                     d == parse_responses(batch)
                 IN  /\ ResendsIn(batch) # {}
                        => /\ d.kind = "Resend"
                           /\ \E i \in ResendsIn(batch) :
                                 d.line = ResendLineNumber(batch[i])
                     /\ ErrorsIn(batch) \subseteq MismatchesIn(batch)
                        => d.kind # "Error"
                     /\ (ResendsIn(batch) = {} /\ ~(ErrorsIn(batch) \subseteq MismatchesIn(batch)))
                        => d.kind = "Error"
                     /\ (ResendsIn(batch) = {} /\ ErrorsIn(batch) \subseteq MismatchesIn(batch))
                        => /\ d.kind = "Continue"
                           /\ d.line = IF OksIn(batch) = {} THEN None
                                       ELSE OkLineNumber(batch[CHOOSE i \in OksIn(batch) :
                                                \A j \in OksIn(batch) : j <= i])]_vars

\* C13, reached: while printing the long job, a batch of an error line and a
\* Resend line was closed by ok, and the line asked for was submitted: Resend
\* won over Error.
C13_Reached ==
    /\ state.state = "PRINTING"
    /\ dist = <<WsTerminalRead(L_error), WsTerminalRead(ResendLine(Cursor)),
                WsTerminalRead(S_ok)>>
    /\ Len(inbox) = 1
    /\ inbox[1].t = "TerminalSend"
    /\ \E b \in Bridges : br[b].print_info.resend_amount = 1

\* C14: a Resend handled in Printing for a line index that is not in the job
\* publishes exactly one transition, Errored "Cannot resend line", submits no
\* Send, leaves the cursor where it was, and the reader task keeps running.
C14_ResendOutOfJob ==
    [][\A b \in Bridges, l \in fw_lines :
          (/\ Decides(b, l, "Resend")
           /\ state.state = "PRINTING"
           /\ br[b].print_info.some
           /\ DecisionOf(b, l).line >= Len(br[b].print_info.gcode))
              => /\ br'[b].reader_task
                 /\ CountOf(NewEvents, "StateUpdate") = 1
                 /\ Published(EvStateUpdate("ERRORED", DescError(MsgCannotResend)))
                 /\ inbox' = inbox
                 /\ br'[b].print_info.line_number = br[b].print_info.line_number]_vars

\* The texts written to the serial link so far, oldest first.
WrittenTexts == [i \in 1..Len(serial_out) |-> serial_out[i].text]

\* The firmware has sent its whole script to the one Bridge, whose port
\* opened, every event has been handled and the watchdog has not fired.
ScriptDone(script) ==
    /\ budget.script = script
    /\ budget.lines = 0
    /\ dist = <<>>
    /\ inbox = <<>>
    /\ Bridges = {1}
    /\ br[1].status = "running"
    /\ br[1].timer = "armed"

\* C15: after the capability probe (the banner start, the firmware line, two
\* capabilities, ok, and three more ok) the writes are M115, G90, M501 and
\* M155 S2, and the phase is Connected with the three capability lines in the
\* snapshot.
C15_CapabilityProbe ==
    ScriptDone(ProbeScript)
       => /\ WrittenTexts = <<S_M115, WithNewline(S_G90), WithNewline(S_M501),
                              WithNewline(S_M155_S2)>>
          /\ state = StateWrapper("CONNECTED",
                        DescCapability(<<L_firmware, L_cap_temp, L_cap_eeprom>>))

\* The texts of the TerminalSend events sent to the distributor in this step.
NewSends ==
    LET es == SelectSeq(NewEvents, LAMBDA e : e.t = "TerminalSend")
    IN  [i \in 1..Len(es) |-> es[i].message]

\* The lines of the batch that announce one of the two capabilities.
Announced(batch) ==
    SelectSeq(batch, LAMBDA l : \/ Contains(l, S_Cap_AUTOREPORT_TEMP_1)
                                \/ Contains(l, S_Cap_EEPROM_1))

\* One follow-up for each announcing line of the batch, in the batch's order.
PendingFor(batch) ==
    [i \in 1..Len(Announced(batch)) |->
        IF Contains(Announced(batch)[i], S_Cap_AUTOREPORT_TEMP_1)
        THEN S_M155_S2 ELSE S_M501]

\* C16 as stated: of the follow-ups, M155 S2 is written first, then M501, and
\* G90 is the last one written.
C16_G90Last ==
    budget.script \in ProbeAnswers
       => \A i, j \in 1..Len(serial_out) :
             i < j => /\ WrittenTexts[i] = WithNewline(S_G90)
                         => WrittenTexts[j] \notin {WithNewline(S_M155_S2),
                                                    WithNewline(S_M501)}
                      /\ WrittenTexts[i] = WithNewline(S_M501)
                         => WrittenTexts[j] # WithNewline(S_M155_S2)

\* C16, amended: the line that closes the capability batch submits G90 alone
\* and leaves pending M155 S2 for each line announcing AUTOREPORT_TEMP and M501
\* for each line announcing EEPROM, and no other command; each later line read
\* while connecting submits the pending command pushed last, so G90 is the
\* first follow-up and the optional ones follow in the reverse of the batch.
C16_FollowUpOrder ==
    [][\A b \in Bridges, l \in fw_lines :
          (ReadLineOf(b, l) /\ state.state = "CONNECTING")
             => /\ (~br[b].has_collected_capabilities
                       /\ br'[b].has_collected_capabilities)
                   => /\ NewSends = <<S_G90>>
                      /\ br'[b].commands_left_to_send
                            = PendingFor(br[b].collected_responses)
                /\ (br[b].has_collected_capabilities
                       /\ br[b].commands_left_to_send # <<>>)
                   => LET left == br[b].commands_left_to_send
                      IN  /\ NewSends = <<left[Len(left)]>>
                          /\ br'[b].commands_left_to_send
                                = SubSeq(left, 1, Len(left) - 1)
                /\ (br[b].has_collected_capabilities
                       /\ br[b].commands_left_to_send = <<>>)
                   => NewSends = <<>>
                /\ (~br'[b].has_collected_capabilities) => NewSends = <<>>]_vars

\* Both capabilities were announced, AUTOREPORT_TEMP first, and the handshake
\* has run to its end.
C16_Reached ==
    /\ ScriptDone(<<L_firmware, L_cap_temp, L_cap_eeprom, S_ok, S_ok, S_ok, S_ok>>)
    /\ WrittenTexts = <<S_M115, WithNewline(S_G90), WithNewline(S_M501),
                        WithNewline(S_M155_S2)>>
    /\ state.state = "CONNECTED"

\* The texts of the Sends submitted to the Bridges' inbox in this step.
NewInbox ==
    LET es == SubSeq(inbox', Len(inbox) + 1, Len(inbox'))
    IN  [i \in 1..Len(es) |-> IF es[i].t = "TerminalSend" THEN es[i].message ELSE <<>>]

\* The step sets the cursor of Bridge b to n and, if the job has a line next,
\* submits that line in its wire form, once.
AdvancesTo(b, n, next) ==
    LET gcode == br[b].print_info.gcode
    IN  /\ br'[b].print_info.line_number = n
        /\ next < Len(gcode)
              => /\ Len(inbox') = Len(inbox) + 1
                 /\ NewInbox = <<add_checksum(next, gcode[next + 1])>>

\* C17: while printing, a Continue decision with the acknowledged line n sets
\* the cursor to n and submits line n + 1 if the job has one; a Continue
\* without a line number at cursor 0 sets the cursor to 1 and submits line 1.
C17_ContinueAdvances ==
    [][\A b \in Bridges, l \in fw_lines :
          (/\ Decides(b, l, "Continue")
           /\ state.state = "PRINTING"
           /\ br[b].print_info.some)
             => LET n == DecisionOf(b, l).line
                IN  /\ n # None => AdvancesTo(b, n, n + 1)
                    /\ (n = None /\ br[b].print_info.line_number = 0)
                          => AdvancesTo(b, 1, 1)]_vars

\* C18: while printing with the cursor past 0, an ok without a line number is
\* ignored: the job (cursor, bytes sent, resend counter) is unchanged, no Send
\* is submitted, nothing is written, and neither a PrintEnd nor a state update
\* is published.
C18_UnnumberedOkIgnored ==
    [][\A b \in Bridges, l \in fw_lines :
          (/\ Decides(b, l, "Continue")
           /\ DecisionOf(b, l).line = None
           /\ state.state = "PRINTING"
           /\ br[b].print_info.some
           /\ br[b].print_info.line_number # 0)
             => /\ br'[b].print_info = br[b].print_info
                /\ inbox' = inbox
                /\ serial_out' = serial_out
                /\ CountOf(NewEvents, "TerminalSend") = 0
                /\ CountOf(NewEvents, "PrintEnd") = 0
                /\ CountOf(NewEvents, "StateUpdate") = 0
                /\ CountOf(NewEvents, "WsStateUpdate") = 0
                /\ state' = state]_vars

\* C18, reached: the print is underway at the cursor, the firmware's plain ok
\* has been read and echoed, and the job is as it was.
C18_Reached ==
    /\ state.state = "PRINTING"
    /\ budget.lines = 0
    /\ dist = <<WsTerminalRead(S_ok)>>
    /\ inbox = <<>>
    /\ \E b \in Bridges, job \in ReaderJobs :
          /\ br[b].reader_task
          /\ br[b].print_info = Underway(job, Cursor)
          /\ br[b].collected_responses = <<>>

\* Bridge b is live: the Supervisor holds it, or one of its tasks runs.
LiveBridge(b) == bridge_thread = b \/ br[b].inbox_task \/ br[b].reader_task

\* C19: a CreateBridge handled while a Bridge is live is answered with the
\* ConnectError "already connected" and spawns no second Bridge.
C19_CreateWhileLive ==
    [][(SupConnectionCreate /\ \E b \in Bridges : LiveBridge(b))
          => /\ Len(dist') = Len(dist)
             /\ dist'[Len(dist')] = EvConnectionCreateError(MsgAlreadyConnected)
             /\ br' = br
             /\ bridge_thread' = bridge_thread]_vars

\* The cancel flag of Bridge b is set; its reader task has exited.
Canceled(b) == IF b \in Bridges THEN br[b].canceled ELSE FALSE
ReaderGone(b) == IF b \in Bridges THEN ~br[b].reader_task ELSE FALSE

\* A Kill waits in the Bridges' channel.
KillSent == \E i \in 1..Len(inbox) : inbox[i].t = "KILL"

\* Bridge b has started and one of its tasks runs.
Runs(b) ==
    IF b \in Bridges
    THEN br[b].status = "running" /\ (br[b].inbox_task \/ br[b].reader_task)
    ELSE FALSE

\* The Supervisor has sent a Kill that Bridge b, the one Bridge that runs,
\* has not consumed.
KillPending(b) ==
    /\ KillSent
    /\ Runs(b)
    /\ ~Canceled(b)
    /\ \A o \in Bridges \ {b} : ~Runs(o)

\* Bridge b has consumed a Kill: the cancel flag is set and the inbox task is
\* gone (with it the serial handle it owned).
Killed(b) == IF b \in Bridges THEN br[b].canceled /\ ~br[b].inbox_task ELSE FALSE

\* A step of Bridge b that writes to the serial link or publishes an event.
BridgeActs(b) ==
    \/ \E i \in (Len(serial_out) + 1)..Len(serial_out') : serial_out'[i].bridge = b
    \/ Timeout(b) /\ dist' # dist
    \/ ReadCanceled(b) /\ (dist' # dist \/ inbox' # inbox)

\* C20: a Kill sent to a live Bridge is eventually consumed by its inbox task,
\* which sets the cancel flag and exits; the reader of a cancelled Bridge
\* eventually exits; and a cancelled Bridge writes nothing more to the serial
\* link and publishes nothing more.  (A process that has ended has stopped
\* every Bridge.)
C20_KillStopsBridge ==
    /\ \A b \in 1..MaxBridges : KillPending(b) ~> (Killed(b) \/ panicked)
    /\ \A b \in 1..MaxBridges : Canceled(b) ~> (ReaderGone(b) \/ panicked)
    /\ [][\A b \in Bridges : br[b].canceled => ~BridgeActs(b)]_vars

\* The step leaves alone the snapshot, the job, the pending-write queue and
\* the gate of Bridge b, writes nothing, submits nothing and publishes nothing.
Silent(b) ==
    /\ state' = state
    /\ br'[b].print_info = br[b].print_info
    /\ br'[b].message_queue = br[b].message_queue
    /\ br'[b].ready = br[b].ready
    /\ serial_out' = serial_out
    /\ dist' = dist
    /\ inbox' = Tail(inbox)
    /\ frames' = frames

\* C21: a PrintStart handled by the inbox task outside CONNECTED, and a
\* PrintEnd handled outside PRINTING, are refused silently: snapshot, job,
\* pending-write queue and gate are unchanged, nothing is written and no
\* event is published.
C21_RefusedSilently ==
    [][\A b \in Bridges :
          /\ (InboxPrintStart(b) /\ state.state # "CONNECTED") => Silent(b)
          /\ (InboxPrintEnd(b) /\ state.state # "PRINTING") => Silent(b)]_vars

\* C21, reached: a started Bridge whose inbox task has refused an event; no
\* Kill was consumed, and the snapshot is the one the refusal found.
C21_Reached ==
    \E b \in Bridges :
       /\ br[b].status = "running"
       /\ ~br[b].inbox_task
       /\ ~br[b].canceled
       /\ state.state \notin {"CONNECTED", "PRINTING"}

\* The settings ask for a connection at boot: the three rows are there,
\* startOnBoot is true, the device path is not empty and the baud rate is
\* not zero.
BootWanted(rows) ==
    /\ \E r \in rows : r.id = "B_startOnBoot" /\ r.bool = "true"
    /\ \E r \in rows : r.id = "S_devicePath" /\ r.raw_value # <<>>
    /\ \E r \in rows : r.id = "N_deviceBaud" /\ r.number # None /\ r.number # 0

\* C22: at boot the Supervisor submits CreateBridge if and only if the three
\* settings are present, startOnBoot is true, the device path is a non-empty
\* text and the baud rate is not zero; otherwise it submits nothing.
C22_BootCreates ==
    [][ConnectBoot =>
          dist' = IF BootWanted(budget.settings) THEN <<EvConnectionCreate>>
                  ELSE <<>>]_vars

\* Wire forms.
W_N1G28_22 == <<"N", "1", "G", "2", "8", "*", "2", "2">>
W_N10G1X10Y20_94 == <<"N", "1", "0", "G", "1", "X", "1", "0", "Y", "2", "0", "*", "9", "4">>
W_N1G28_50 == <<"N", "1", "G", "2", "8", "*", "5", "0">>
W_N10G1X10Y20_59 == <<"N", "1", "0", "G", "1", "X", "1", "0", "Y", "2", "0", "*", "5", "9">>

\* The index and the text of the last line of the job of Bridge b.
LastIndex(b) == Len(br[b].print_info.gcode) - 1
LastText(b) == br[b].print_info.gcode[LastIndex(b) + 1]

\* The reader of Bridge b answers the acknowledgement of the line before the
\* last one of its job.
AnswersLast(b, l) ==
    /\ ReadLineOf(b, l)
    /\ state.state = "PRINTING"
    /\ br[b].print_info.some
    /\ l \in {OkLine(LastIndex(b) - 1)}
              \cup (IF br[b].print_info.line_number = 0 /\ LastIndex(b) = 1
                    THEN {S_ok} ELSE {})

\* C23 as stated: checksum(1, "G28") is N1G28*22 and
\* checksum(10, "G1 X10 Y20") is N10G1X10Y20*94.
C23_ChecksumAsStated ==
    [][\A b \in Bridges, l \in fw_lines :
          AnswersLast(b, l)
             => /\ (LastIndex(b) = 1 /\ LastText(b) = L_G28)
                      => NewInbox = <<W_N1G28_22>>
                /\ (LastIndex(b) = 10 /\ LastText(b) = L_G1_X10_Y20)
                      => NewInbox = <<W_N10G1X10Y20_94>>]_vars

\* C23, amended: checksum(1, "G28") is N1G28*50 and
\* checksum(10, "G1 X10 Y20") is N10G1X10Y20*59.
C23_ChecksumExamples ==
    [][\A b \in Bridges, l \in fw_lines :
          AnswersLast(b, l)
             => /\ (LastIndex(b) = 1 /\ LastText(b) = L_G28)
                      => NewInbox = <<W_N1G28_50>>
                /\ (LastIndex(b) = 10 /\ LastText(b) = L_G1_X10_Y20)
                      => NewInbox = <<W_N10G1X10Y20_59>>]_vars

\* C23, reached: line 10, G1 X10 Y20, has been submitted in its wire form.
C23_Reached ==
    /\ Len(inbox) = 1
    /\ inbox[1].t = "TerminalSend"
    /\ inbox[1].message = W_N10G1X10Y20_59
    /\ \E b \in Bridges : LastText(b) = L_G1_X10_Y20 /\ br[b].print_info.line_number = 9

\* The text without its spaces.
NoSpaces(x) == SelectSeq(x, LAMBDA c : c # " ")

\* Bit k of the exclusive or of the bytes of s: the parity of the number of
\* bytes of s that have bit k set.
XorBit(s, k) ==
    Cardinality({j \in 1..Len(s) : (Ord(s[j]) \div (2 ^ k)) % 2 = 1}) % 2

\* The exclusive or of the bytes of s, as a number of 8 bits.
XorOf(s) ==
    XorBit(s, 0) + 2 * XorBit(s, 1) + 4 * XorBit(s, 2) + 8 * XorBit(s, 3)
       + 16 * XorBit(s, 4) + 32 * XorBit(s, 5) + 64 * XorBit(s, 6)
       + 128 * XorBit(s, 7)

\* N<i><text without spaces>*<c>, c the exclusive or of the bytes before the
\* star.
WireForm(i, x) ==
    LET prefixed == <<"N">> \o Dec(i) \o NoSpaces(x)
    IN  prefixed \o <<"*">> \o Dec(XorOf(prefixed))

\* C24: the wire form of line i with text x is N<i><x without spaces>*<c>,
\* where c is the exclusive or of every byte of N<i><x without spaces> in 8
\* bits; texts that differ only in spaces have the same wire form.
C24_WireForm ==
    [][\A b \in Bridges, l \in fw_lines :
          AnswersLast(b, l)
             => /\ NewInbox = <<WireForm(LastIndex(b), LastText(b))>>
                /\ \A y \in WireTexts :
                      NoSpaces(y) = NoSpaces(LastText(b))
                         => add_checksum(LastIndex(b), y) = NewInbox[1]]_vars

\* C24, reached: a line with a space inside, G 1, has been submitted as
\* line 1 in its wire form.
C24_Reached ==
    /\ Len(inbox) = 1
    /\ inbox[1].t = "TerminalSend"
    /\ inbox[1].message = WireForm(1, <<"G", " ", "1">>)
    /\ \E b \in Bridges : LastIndex(b) = 1 /\ LastText(b) = <<"G", " ", "1">>

\* C25: a line that begins with ok and carries a temperature report, here
\* ok T:203.12 /210.00 B:59.8 /60.0 , closes the batch as an ok without a
\* line number, publishes exactly one TempUpdate with the tool and the bed
\* reading and no chamber, and publishes no TerminalRead.  (Readings are in
\* hundredths.)
C25_OkWithTemperature ==
    [][\A b \in Bridges :
          (ReadLineOf(b, L_ok_temp_bed) /\ br[b].collected = <<>>)
             => /\ br'[b].collected_responses = <<>>
                /\ CountOf(NewEvents, "WsTempUpdate") = 1
                /\ Published([t |-> "WsTempUpdate",
                              tools |-> <<[name |-> <<"T">>, current |-> 20312,
                                           target |-> 21000]>>,
                              bed |-> [some |-> TRUE, current |-> 5980,
                                       target |-> 6000],
                              chamber |-> NoTemp])
                /\ CountOf(NewEvents, "WsTerminalRead") = 0]_vars

\* The step rewinds the job of Bridge b to line k: the resend is counted, the
\* cursor is k and line k is submitted in its wire form, once.
RewindsTo(b, k) ==
    LET info == br[b].print_info
    IN  /\ br'[b].print_info.resend_amount = info.resend_amount + 1
        /\ br'[b].print_info.line_number = k
        /\ Len(inbox') = Len(inbox) + 1
        /\ NewInbox = <<add_checksum(k, info.gcode[k + 1])>>

\* C26: a Resend(k) handled in Printing, with line k in the job and the
\* resends counted no more than 10% of the lines, counts the resend, sets the
\* cursor to k and submits line k in its wire form, once (a job of 20 lines
\* rewinds from its cursor to an earlier line); a Resend decision outside
\* Printing changes nothing and submits nothing.
C26_ResendRewinds ==
    [][\A b \in Bridges, l \in fw_lines :
          Decides(b, l, "Resend") =>
             LET k == DecisionOf(b, l).line
                 info == br[b].print_info
             IN  /\ (/\ state.state = "PRINTING"
                     /\ info.some
                     /\ k < Len(info.gcode)
                     /\ ~TenPercentExceeded(report_resend(info)))
                       => RewindsTo(b, k)
                 /\ state.state = "CONNECTED"
                       => /\ br'[b].print_info = info
                          /\ br'[b].message_queue = br[b].message_queue
                          /\ br'[b].ready = br[b].ready
                          /\ inbox' = inbox
                          /\ serial_out' = serial_out
                          /\ CountOf(NewEvents, "StateUpdate") = 0]_vars

\* A text written to the serial link is a print line in its wire form.
IsWireLine(text) == StartsWith(text, <<"N">>) /\ Contains(text, <<"*">>)

\* The inbox task of Bridge b handles an EndPrint while the phase is Printing.
HandlesEndPrint(b) ==
    /\ InboxHead(b, "PrintEnd")
    /\ inbox' = Tail(inbox)
    /\ state.state = "PRINTING"

\* The reader of Bridge b takes Continue(n) on the line l while printing, and
\* the job has no line after n.
ContinuesPastEnd(b, l) ==
    /\ state.state = "PRINTING"
    /\ br[b].print_info.some
    /\ budget'.lines < budget.lines
    /\ Decides(b, l, "Continue")
    /\ DecisionOf(b, l).line # None
    /\ DecisionOf(b, l).line + 1 >= Len(br[b].print_info.gcode)

\* The step of C27 in which the reader finds no next line.
C27_ReaderEnds ==
    \A b \in Bridges, l \in fw_lines :
       ContinuesPastEnd(b, l) => Published(EvPrintEnd) /\ inbox' = inbox

\* The step of C27 in which the inbox task ends the print.
C27_InboxEnds ==
    \A b \in Bridges :
       HandlesEndPrint(b)
          => /\ br'[b].print_info = NoJob
             /\ Published(EvStateUpdate("CONNECTED", DescNone))
             /\ br'[b].ready

\* The steps of C27 in which the Supervisor stores the phase and the inbox
\* task opens the gate.
C27_PhaseAndGate ==
    /\ (SupStateUpdate /\ Head(dist) = EvStateUpdate("CONNECTED", DescNone))
          => state' = StateWrapper("CONNECTED", DescNone)
    /\ \A b \in Bridges :
          (/\ InboxHead(b, "StateUpdate")
           /\ inbox' = Tail(inbox)
           /\ Head(inbox).state = "CONNECTED") => br'[b].ready

\* No print line is written for a Bridge that holds no job.
C27_NoLineWithoutJob ==
    \A i \in (Len(serial_out) + 1)..Len(serial_out') :
       IsWireLine(serial_out'[i].text)
          => br[serial_out'[i].bridge].print_info.some

\* C27: a Continue in Printing with no next line publishes EndPrint and
\* submits no Send; the inbox task handling EndPrint in Printing drops the
\* job and the phase becomes Connected with description None, after which the
\* gate is open; no print line is written once the EndPrint is handled.
C27_PrintEnds ==
    [][/\ C27_ReaderEnds
       /\ C27_InboxEnds
       /\ C27_PhaseAndGate
       /\ C27_NoLineWithoutJob]_vars

\* The inbox task of Bridge b handles a StartPrint while the phase is Connected.
HandlesStartPrint(b) ==
    /\ InboxHead(b, "PrintStart")
    /\ inbox' = Tail(inbox)
    /\ state.state = "CONNECTED"

\* The step of C28 in which the inbox task installs the job.
C28_Installs ==
    \A b \in Bridges :
       HandlesStartPrint(b)
          => LET info == Head(inbox).info
             IN  /\ br'[b].print_info = info
                 /\ info.some
                 /\ info.line_number = 0
                 /\ info.data_sent = 0
                 /\ info.resend_amount = 0
                 /\ Published(EvStateUpdate("PRINTING", DescPrint(info)))
                 /\ DescPrint(info).filename = info.filename
                 /\ \E i \in (Len(dist) + 1)..Len(dist') :
                       /\ dist'[i].t = "TerminalSend"
                       /\ dist'[i].message = S_M110_N0

\* The Supervisor has stored the phase Printing: the state_update it sends to
\* the clients then is in its channel or among the frames.
PhaseWasPrinting ==
    \/ \E i \in 1..Len(frames) : frames[i].state = "PRINTING"
    \/ \E i \in 1..Len(dist) :
          dist[i].t = "WsStateUpdate" /\ dist[i].state = "PRINTING"

\* M110 N0 is written only after the phase became Printing.
C28_ResetInPrinting ==
    \A i \in (Len(serial_out) + 1)..Len(serial_out') :
       serial_out'[i].text = WithNewline(S_M110_N0) => PhaseWasPrinting

\* A print line is written only after the M110 N0 of its print.
C28_ResetFirst ==
    \A i \in (Len(serial_out) + 1)..Len(serial_out') :
       IsWireLine(serial_out'[i].text)
          => \E j \in 1..(i - 1) : serial_out'[j].text = WithNewline(S_M110_N0)

\* C28: a StartPrint handled in Connected installs the job with cursor 0, no
\* byte sent and no resend counted, and publishes the phase Printing with the
\* Print description of the file; the first write of the print is M110 N0,
\* written once the phase is Printing and before any checksummed line.
C28_PrintStarts ==
    [][C28_Installs /\ C28_ResetInPrinting /\ C28_ResetFirst]_vars

\* The reader of Bridge b reads the line l while connecting, the capability
\* batch being complete.
ReadsAfterCapabilities(b, l) ==
    /\ state.state = "CONNECTING"
    /\ br[b].has_collected_capabilities
    /\ budget'.lines < budget.lines
    /\ ReadLineOf(b, l)

\* C29: while connecting, once the capability batch is complete, a line that
\* is not ok dispatches no follow-up and publishes no Connected; an ok
\* dispatches one follow-up if one is queued and otherwise publishes
\* Connected with the Capability description of the batch.
C29_FollowUpPerOk ==
    [][\A b \in Bridges, l \in fw_lines :
          ReadsAfterCapabilities(b, l) =>
             LET left == br[b].commands_left_to_send
                 connected == EvStateUpdate("CONNECTED",
                                  DescCapability(br[b].collected_responses))
             IN  IF ~StartsWith(br[b].collected \o l, S_ok)
                 THEN /\ CountOf(NewEvents, "TerminalSend") = 0
                      /\ ~Published(connected)
                      /\ br'[b].commands_left_to_send = left
                 ELSE IF left # <<>>
                 THEN /\ CountOf(NewEvents, "TerminalSend") = 1
                      /\ Len(br'[b].commands_left_to_send) = Len(left) - 1
                      /\ ~Published(connected)
                 ELSE /\ CountOf(NewEvents, "TerminalSend") = 0
                      /\ Published(connected)]_vars

\* The reader of Bridge b reads, while connecting, the ok that closes a batch
\* whose first line does not name Marlin.
ClosesForeignBatch(b, l) ==
    /\ state.state = "CONNECTING"
    /\ ~br[b].has_collected_capabilities
    /\ br[b].collected_responses # <<>>
    /\ ~StartsWith(br[b].collected_responses[1], S_FIRMWARE_NAME_Marlin)
    /\ StartsWith(br[b].collected \o l, S_ok)
    /\ budget'.lines < budget.lines
    /\ ReadLineOf(b, l)

ReadsErrorConnecting(b, l) ==
    /\ state.state = "CONNECTING"
    /\ budget'.lines < budget.lines
    /\ StartsWith(ToLower(br[b].collected \o l), S_error)
    /\ ReadLineOf(b, l)

\* An Errored transition for an error line is in the Supervisor's channel.
ErrorLinePending ==
    \E i \in 1..Len(dist), l \in fw_lines :
       /\ StartsWith(ToLower(l), S_error)
       /\ dist[i] = EvStateUpdate("ERRORED", DescError(l))

\* The step publishes a transition to Connected or dispatches a command.
ConnectsOrDispatches ==
    \E i \in (Len(dist) + 1)..Len(dist') :
       \/ dist'[i].t = "TerminalSend"
       \/ dist'[i].t = "StateUpdate" /\ dist'[i].state = "CONNECTED"

\* C31: while connecting, a line that begins with error publishes Errored
\* with that line as its message; neither the step that reads it nor a later
\* read made while that transition awaits the Supervisor publishes Connected
\* or dispatches a follow-up command.
C31_ErrorLineEnds ==
    [][\A b \in Bridges, l \in fw_lines :
          /\ ReadsErrorConnecting(b, l)
                => /\ Published(EvStateUpdate("ERRORED",
                                   DescError(br[b].collected \o l)))
                   /\ ~ConnectsOrDispatches
          /\ (/\ state.state = "CONNECTING"
              /\ ErrorLinePending
              /\ budget'.lines < budget.lines
              /\ ReadLineOf(b, l)) => ~ConnectsOrDispatches]_vars

\* The Supervisor spawns a Bridge in this step.
CreatesBridge == SupConnectionCreate /\ Len(br') = Len(br) + 1

\* C32: when the Supervisor creates a Bridge, the Bridge channel holds no
\* event submitted before: the new Bridge's inbox task finds no stale Send,
\* StartPrint, EndPrint, state update or Kill.
C32_FreshInbox ==
    [][CreatesBridge => inbox = <<>>]_vars

\* The watchdog of Bridge a fires in this step.
WatchdogFires(a) == br[a].timer = "armed" /\ br'[a].timer = "fired"

\* A Bridge created after Bridge a is connecting and its own watchdog has
\* not fired yet.
LaterBridgeConnecting(a) ==
    /\ state.state = "CONNECTING"
    /\ \E b \in Bridges : b > a /\ br[b].status = "running" /\ br[b].timer = "armed"

\* C33: the watchdog of a Bridge publishes no Errored "Timed out" when it
\* fires while a Bridge created later is connecting within its own ten
\* seconds.
C33_OwnWatchdog ==
    [][\A a \in Bridges :
          (WatchdogFires(a) /\ LaterBridgeConnecting(a))
             => ~Published(EvStateUpdate("ERRORED", DescError(MsgTimedOut)))]_vars

\* The inbox task of Bridge b refuses the event at the head of the channel: a
\* StartPrint outside Connected or an EndPrint outside Printing.
Refuses(b) ==
    \/ InboxPrintStart(b) /\ state.state # "CONNECTED"
    \/ InboxPrintEnd(b) /\ state.state # "PRINTING"

\* C34: the inbox task that refuses a StartPrint or an EndPrint keeps
\* running, so that it takes the Sends and the Kill that follow.
C34_RefusalKeepsTask ==
    [][\A b \in Bridges : Refuses(b) => br'[b].inbox_task]_vars

\* A transition to Errored has been published: it awaits the Supervisor, or
\* the Supervisor has stored it.
ErroredPublished ==
    \/ state.state = "ERRORED"
    \/ \E i \in 1..Len(dist) : dist[i].t = "StateUpdate" /\ dist[i].state = "ERRORED"

\* C35: once a transition to Errored has been published during a print, no
\* print line is written to the serial link.
C35_NoLineAfterErrored ==
    [][ErroredPublished
          => \A i \in (Len(serial_out) + 1)..Len(serial_out') :
                ~IsWireLine(serial_out'[i].text)]_vars

\* No Bridge is live and the Supervisor has handled every event.
Idle ==
    /\ bridge_thread = 0
    /\ \A b \in Bridges : ~LiveBridge(b)
    /\ dist = <<>>

\* C36: whenever no Bridge is live and the distributor's channel is empty,
\* the phase of the snapshot is Disconnected or Errored.
C36_IdlePhase ==
    Idle => state.state \in {"DISCONNECTED", "ERRORED"}

(***************************************************************************)
(* A whole print: the Bridge is connected, the front-end starts the job,   *)
(* and the firmware answers each command written to it, M110 N0 with ok    *)
(* and line k with  ok N<k> .                                              *)
(***************************************************************************)
\* The answers of the firmware to the writes of the print, in their order.
AnswerScript == [i \in 1..JobLines |-> IF i = 1 THEN S_ok ELSE OkLine(i - 1)]

InitPrint ==
    /\ HandshakeDone
    /\ budget = [lines |-> JobLines, api |-> 1, io |-> 0, creates |-> 0,
                 script |-> AnswerScript]
    /\ fw_lines = {AnswerScript[i] : i \in 1..JobLines}

\* The reader reads the firmware's answer to the command that is in flight.
ReadAnswer(b) == in_flight[b] > 0 /\ ReadLine(b)

\* The Supervisor's arms for the events of a print.
SupervisorPrint ==
    \/ SupPrintStart
    \/ SupPrintEnd
    \/ SupStateUpdate
    \/ SupTerminalSend
    \/ SupWsStateUpdate
    \/ SupForward

\* The inbox task's arms for the events of a print.
InboxPrint(b) ==
    \/ InboxPrintStart(b)
    \/ InboxPrintEnd(b)
    \/ InboxStateUpdate(b)
    \/ InboxTerminalSend(b)

NextPrint ==
    \/ ApiStartPrint
    \/ SupervisorPrint
    \/ \E b \in Bridges : InboxPrint(b)
    \/ \E b \in Bridges : ReadAnswer(b)

\* ReadAnswer(b) is enabled: the reader runs and an answer is due.
CanAnswer(b) ==
    /\ ReaderRuns(b)
    /\ ~br[b].canceled
    /\ budget.lines > 0
    /\ in_flight[b] > 0

\* The print under its scheduler: the Supervisor and the two tasks of the
\* Bridge each run again and again.  The last conjunct is the weak fairness
\* of ReadAnswer(1), written with its enabling condition.
SpecPrint ==
    /\ InitPrint
    /\ [][NextPrint]_vars
    /\ WF_vars(SupervisorPrint)
    /\ WF_vars(InboxPrint(1))
    /\ ([]<>(~CanAnswer(1)) \/ []<><<ReadAnswer(1)>>_vars)

\* The writes of the session and of the whole print: M110 N0, then the lines
\* 1..size-1 of the job in their wire form, each once.
PrintWrites ==
    <<S_M115, WithNewline(S_G90), WithNewline(S_M110_N0)>>
       \o [k \in 1..(JobLines - 1) |-> WithNewline(add_checksum(k, JobGcode[k + 1]))]

\* The front-end's StartPrint has been accepted.
PrintRequested == budget.api = 0

\* The reader has published EndPrint, or the Supervisor and the inbox task
\* have passed it on already.
EndPrintPublished ==
    \/ \E i \in 1..Len(dist) : dist[i] = EvPrintEnd
    \/ \E i \in 1..Len(inbox) : inbox[i] = EvPrintEnd
    \/ (budget.lines = 0 /\ ~br[1].print_info.some)

\* The print is over: the phase is back to Connected and every line was
\* written once, in order.
PrintOver ==
    /\ state = StateWrapper("CONNECTED", DescNone)
    /\ ~br[1].print_info.some
    /\ WrittenTexts = PrintWrites

\* C37: with a firmware that answers M110 N0 with ok and line k with ok N<k>
\* and asks for no resend, under fair scheduling, a print started from
\* Connected writes the lines 1..size-1 once each and in order, eventually
\* publishes EndPrint and eventually is back in Connected.
C37_PrintCompletes ==
    /\ [](\E n \in 0..Len(PrintWrites) : WrittenTexts = SubSeq(PrintWrites, 1, n))
    /\ PrintRequested ~> EndPrintPublished
    /\ PrintRequested ~> PrintOver

\* C37, reached: the print is over.
C37_Reached == PrintRequested /\ PrintOver

(***************************************************************************)
(* The program with its watchdogs and its Supervisor under the scheduler.  *)
(***************************************************************************)
\* The end of the sleep of the watchdog of Bridge b.
WatchdogEnds(b) == b \in Bridges /\ Timeout(b)

\* The sleep of every watchdog ends, and the Supervisor handles the events
\* sent to it.
SpecWatch ==
    /\ Spec
    /\ WF_vars(Supervisor)
    /\ \A b \in 1..MaxBridges : WF_vars(WatchdogEnds(b))

\* Bridge b opened its port, the phase is Connecting and the watchdog of b
\* has not fired.
ConnectingWatched(b) ==
    IF b \in Bridges
    THEN /\ br[b].status = "running"
         /\ br[b].timer = "armed"
         /\ state.state = "CONNECTING"
    ELSE FALSE

\* C38: a Bridge whose port opened does not stay in Connecting for ever:
\* whatever the firmware sends, the phase becomes Connected, Errored or
\* Disconnected, unless the program has ended.
C38_ConnectingEnds ==
    \A b \in 1..MaxBridges :
       ConnectingWatched(b)
          ~> (state.state \in {"CONNECTED", "ERRORED", "DISCONNECTED"} \/ panicked)

\* C38, reached: a firmware that is not Marlin had its M115 repeated, and the
\* watchdog ended the handshake.
C38_Reached ==
    /\ state = StateWrapper("ERRORED", DescError(MsgTimedOut))
    /\ \E b \in Bridges :
          /\ br[b].timer = "fired"
          /\ ~br[b].has_collected_capabilities
          /\ Len(SelectSeq(serial_out, LAMBDA w : w = Written(b, S_M115))) >= 2

(***************************************************************************)
(* The bytes counted as sent: the front-end starts the job on a connected  *)
(* Bridge, and the firmware answers each command written to it, either as  *)
(* in a whole print or acknowledging line 1 again and again.               *)
(***************************************************************************)
\* The answers of a firmware that acknowledges line 1 for every line.
MaxAcks == 30
ReAckScript == [i \in 1..MaxAcks |-> IF i = 1 THEN S_ok ELSE OkLine(1)]

InitProgress ==
    /\ HandshakeDone
    /\ \E script \in {AnswerScript, ReAckScript} :
          /\ budget = [lines |-> Len(script), api |-> 1, io |-> 0, creates |-> 0,
                       script |-> script]
          /\ fw_lines = {script[i] : i \in 1..Len(script)}

SpecProgress == InitProgress /\ [][NextPrint]_vars

\* The print jobs held by the readers.
HeldJobs == {br[b].print_info : b \in {c \in Bridges : br[c].print_info.some}}

\* C39: in every state of a print the bytes counted as sent are at most the
\* size of the file, so the progress is within 0..100 percent.
C39_ProgressBounded ==
    \A info \in HeldJobs :
       /\ info.data_sent <= info.filesize
       /\ ProgressTenths(info) <= 1000

\* The count exceeds the size of the file by more than two bytes for each
\* line of the job: the line ends of the file do not make up the difference.
C39_FarBeyond ==
    \E info \in HeldJobs : info.data_sent > info.filesize + 2 * Len(info.gcode)

(***************************************************************************)
(* The cursor of the job and the line numbers the firmware sends.          *)
(***************************************************************************)
\* The reader of Bridge b runs and holds a job while the phase is Printing.
ReaderPrints(b) ==
    /\ state.state = "PRINTING"
    /\ br[b].reader_task
    /\ br[b].print_info.some

\* C40: whatever line number the firmware sends in  ok N<n>  or
\* Resend: N<n>  during a print, the reader does not crash and the cursor
\* stays an index of the job, 0 <= cursor < size.
C40_CursorInJob ==
    [][\A b \in Bridges :
          ReaderPrints(b)
             => /\ br'[b].reader_task
                /\ br'[b].print_info.some
                      => br'[b].print_info.line_number
                            \in 0..(Len(br'[b].print_info.gcode) - 1)]_vars

\* The reader stays alive and the cursor is set to the size of the job.
C40_CursorAtSize ==
    \E b \in Bridges :
       /\ br[b].reader_task
       /\ br[b].print_info.some
       /\ br[b].print_info.line_number = Len(br[b].print_info.gcode)

====
